---- MODULE Spec2Model ----
(***************************************************************************)
(* Stream translation of the proxy: an upstream (OpenAI-style) chunk       *)
(* iterator is turned into a sequence of Anthropic SSE events.             *)
(*                                                                         *)
(*   handler = "orch" : _handle_streaming_response piping the upstream     *)
(*                      into build_anthropic_sse_stream                    *)
(*                      (src/src/services/message_flow_orchestrator.py,    *)
(*                       src/src/services/anthropic_sse_builder_service.py)*)
(*   handler = "hs"   : handle_streaming                                   *)
(*                      (src/anthropic_proxy/app/api/endpoints/messages.py)*)
(*                                                                         *)
(* Strings are sequences of tokens, so that concatenation is \o and the    *)
(* empty string is << >> (falsy in the Python source).                     *)
(***************************************************************************)
EXTENDS Integers, Sequences, FiniteSets, TLC

\* Bound: the number of chunks the upstream yields before it ends or raises.
MaxChunks == 4

\* Bound: the number of chunks each of two concurrent requests reads.
MaxChunksPerRequest == 2

\* Bound: the number of content blocks of an Anthropic message, and of text
\* blocks of a system prompt.
MaxBlocks == 3
MaxMessages == 2

\* Python's None for integer-valued slots.
NoneInt == 0 - 1

----------------------------------------------------------------------------
(* Upstream chunks *)

NoUsage == [present |-> FALSE, prompt_tokens |-> 0, completion_tokens |-> 0]
SomeUsage == [present |-> TRUE, prompt_tokens |-> 3, completion_tokens |-> 2]

TextFrags == {<<"He">>, <<"llo">>}
ArgFrags == {<<"{x:">>, <<"1}">>}
ToolIdxs == {0, 1}
ToolId(i) == IF i = 0 THEN "c0" ELSE "c1"
ToolName(i) == IF i = 0 THEN "f0" ELSE "f1"

\* A streamed tool_calls entry: the first fragment of a tool carries id and
\* name (and empty arguments), the later ones carry an arguments fragment.
HeaderFrag(i) == [index |-> i, id |-> ToolId(i), name |-> ToolName(i), arguments |-> << >>]
ArgFrag(i, a) == [index |-> i, id |-> "", name |-> "", arguments |-> a]

ToolCallLists ==
    {<<HeaderFrag(i)>> : i \in ToolIdxs}
    \cup {<<ArgFrag(i, a)>> : i \in ToolIdxs, a \in ArgFrags}
    \cup {<<HeaderFrag(0), HeaderFrag(1)>>}

Chunk(ch, co, tc, fr, us) ==
    [id |-> "chatcmpl-1", choices |-> ch, content |-> co, tool_calls |-> tc,
     finish_reason |-> fr, usage |-> us]

UsageOnlyChunk == Chunk(FALSE, << >>, << >>, "", SomeUsage)
TextChunk(t) == Chunk(TRUE, t, << >>, "", NoUsage)
ToolChunk(tc) == Chunk(TRUE, << >>, tc, "", NoUsage)
FinishChunk(fr, us) == Chunk(TRUE, << >>, << >>, fr, us)

FinishChunks ==
    {FinishChunk("stop", SomeUsage), FinishChunk("tool_calls", NoUsage),
     FinishChunk("length", NoUsage)}

Chunks ==
    {UsageOnlyChunk}
    \cup {TextChunk(t) : t \in TextFrags}
    \cup {ToolChunk(tc) : tc \in ToolCallLists}
    \cup FinishChunks

\* What the upstream iterator can raise instead of yielding a chunk.
\* kind "http" is httpx.HTTPStatusError, whose body is JSON or not; raw_type is
\* the error.type of a JSON body, given as the set of keywords it contains
\* ("rate_limit_exceeded" is {"rate_limit"}, "server_error" is {}).
Exceptions ==
    {[kind |-> "generic", json |-> FALSE, raw_type |-> {}],
     [kind |-> "http", json |-> TRUE, raw_type |-> {"rate_limit"}],
     [kind |-> "http", json |-> FALSE, raw_type |-> {}]}
NoException == [kind |-> "none", json |-> FALSE, raw_type |-> {}]

----------------------------------------------------------------------------
(* Emitted SSE events *)

Ev(t) ==
    [type |-> t, index |-> NoneInt, kind |-> "", id |-> "", name |-> "",
     text |-> << >>, stop_reason |-> "", output_tokens |-> NoneInt,
     input_tokens |-> NoneInt, error_type |-> "", upstream_index |-> NoneInt,
     stop_sequence |-> ""]

MessageStart(id) == [Ev("message_start") EXCEPT !.id = id]
BlockStartText(i) == [Ev("content_block_start") EXCEPT !.index = i, !.kind = "text"]
\* BlockStartTool with the upstream tool index reused as the block index
\* (C11_IndexMonotonicity detects it).
BlockStartToolAtUpstreamIndex(i, id, name, litellm_idx) ==
    [Ev("content_block_start") EXCEPT !.index = litellm_idx, !.kind = "tool_use",
                                      !.id = id, !.name = name,
                                      !.upstream_index = litellm_idx]
\* upstream_index is not on the wire: it records the upstream tool index the
\* block was opened for.
BlockStartTool(i, id, name, litellm_idx) ==
    [Ev("content_block_start") EXCEPT !.index = i, !.kind = "tool_use",
                                      !.id = id, !.name = name,
                                      !.upstream_index = litellm_idx]
TextDelta(i, t) ==
    [Ev("content_block_delta") EXCEPT !.index = i, !.kind = "text_delta", !.text = t]
InputJsonDelta(i, a) ==
    [Ev("content_block_delta") EXCEPT !.index = i, !.kind = "input_json_delta", !.text = a]
BlockStop(i) == [Ev("content_block_stop") EXCEPT !.index = i]
MessageDelta(sr, outTok, inTok) ==
    [Ev("message_delta") EXCEPT !.stop_reason = sr, !.output_tokens = outTok,
                                !.input_tokens = inTok, !.stop_sequence = "null"]
MessageStop == Ev("message_stop")
Ping == Ev("ping")
ErrorEvent(et) == [Ev("error") EXCEPT !.error_type = et]
DoneSentinel == Ev("[DONE]")

----------------------------------------------------------------------------
VARIABLES
    handler,    \* which stream handler serves the request
    pc,         \* "start", "stream", "done", "raised" (exception left the generator)
                \* or "cancelled" (the client disconnected)
    inp,        \* the chunks the upstream has yielded so far
    exc,        \* the exception the upstream raised, NoException if none
    out,        \* the SSE events emitted so far
    builder,    \* locals of build_anthropic_sse_stream / _handle_streaming_response
    hs,         \* locals of handle_streaming
    ends,       \* the two ends of the request: client disconnect, upstream iterator
    fn,         \* the stream function that serves the requests of req
    req,        \* per request: position, chunks read, events emitted, locals
    attrs,      \* the attributes set on the stream function objects
    call,       \* a call of a translator function: its name and argument
    ret         \* what the call returned, NotReturned before

streamVars == <<handler, pc, inp, exc, out, builder, hs, ends>>
sharedVars == <<fn, req, attrs>>
callVars == <<call, ret>>
vars == <<streamVars, sharedVars, callVars>>

\* The variables a single stream request does not touch.
idleVars == <<sharedVars, callVars>>

NoFn == "none"
NoAttrs == [content_block_started_0 |-> FALSE, sent_message_start |-> FALSE]
NoCall == [fn |-> "none"]
NotReturned == [returned |-> FALSE]

\* No concurrent requests and no translator call are under way.
IdleInit ==
    /\ fn = NoFn
    /\ req = << >>
    /\ attrs = NoAttrs
    /\ call = NoCall
    /\ ret = NotReturned

\* The client is connected and the upstream iterator is open. disconnect is
\* "none", "read" (the consumer task was cancelled while the handler awaited
\* the upstream read) or "yield" (the generator was closed where it was
\* suspended at a yield); delivered is the number of events the client had
\* received at the disconnect.
EndsInit == [disconnect |-> "none", delivered |-> NoneInt, upstream_closed |-> FALSE]

BuilderInit ==
    [first_chunk_id |-> "fallback_id_from_orchestrator",
     sent_message_start |-> FALSE,
     current_block_index |-> 0,
     sent_content_block_starts |-> {}]

HsInit ==
    [current_tool_call_litellm_index |-> NoneInt,
     tool_content |-> << >>,
     accumulated_text |-> << >>,
     text_sent |-> FALSE,
     text_block_closed |-> FALSE,
     input_tokens |-> 0,
     output_tokens |-> 0,
     has_sent_stop_reason |-> FALSE,
     anthropic_tool_block_idx_counter |-> 0]

Init ==
    /\ handler \in {"orch", "hs"}
    /\ pc = "start"
    /\ inp = << >>
    /\ exc = NoException
    /\ out = << >>
    /\ builder = BuilderInit
    /\ hs = HsInit
    /\ ends = EndsInit
    /\ IdleInit

----------------------------------------------------------------------------
(* Error translation (error_translator_service.py) *)

\* The elif chain on raw_type_lower; kws is the set of keywords raw_type contains.
translate_openai_error_to_anthropic_format(kws) ==
    IF kws \cap {"auth", "permission", "key"} # {} THEN "authentication_error"
    ELSE IF "rate_limit" \in kws THEN "rate_limit_error"
    ELSE IF kws \cap {"invalid_request", "validation", "bad_request"} # {}
         THEN "invalid_request_error"
    ELSE IF kws \cap {"not_found", "model_not_found"} # {} THEN "not_found_error"
    ELSE IF kws \cap {"overloaded", "capacity", "unavailable"} # {} THEN "overloaded_error"
    ELSE "api_error"

\* The single event generate_anthropic_error_sse_event yields.
generate_anthropic_error_sse_event(error_type_str) == <<ErrorEvent(error_type_str)>>

----------------------------------------------------------------------------
(* build_anthropic_sse_stream (anthropic_sse_builder_service.py) *)

stop_reason_map(finish_reason) ==
    CASE finish_reason = "stop" -> "end_turn"
      [] finish_reason = "length" -> "max_tokens"
      [] finish_reason = "tool_calls" -> "tool_use"
      [] finish_reason = "content_filter" -> "content_filtered"
      [] finish_reason = "function_call" -> "tool_use"
      [] OTHER -> finish_reason

\* _build_message_completion_events with 0 as the placeholder of
\* output_tokens (C35_CompletionUsage detects it).
BuildMessageCompletionEventsZeroPlaceholder(finish_reason, chunk_usage) ==
    LET output_tokens == IF chunk_usage.present THEN chunk_usage.completion_tokens ELSE 0
    IN  <<MessageDelta(stop_reason_map(finish_reason), output_tokens, NoneInt), MessageStop>>

\* message_delta and message_stop; output_tokens is 1 unless the chunk carries usage.
BuildMessageCompletionEvents(finish_reason, chunk_usage) ==
    LET output_tokens == IF chunk_usage.present THEN chunk_usage.completion_tokens ELSE 1
    IN  <<MessageDelta(stop_reason_map(finish_reason), output_tokens, NoneInt), MessageStop>>

\* The text part of one loop iteration: lines 109-117.
BuilderTextEvents(b, chunk) ==
    IF chunk.content # << >>
    THEN (IF b.current_block_index \in b.sent_content_block_starts
          THEN << >>
          ELSE <<BlockStartText(b.current_block_index)>>)
         \o <<TextDelta(b.current_block_index, chunk.content)>>
    ELSE << >>

\* The tool_calls part of one loop iteration: lines 129-131 (`pass`).
BuilderToolEvents(b, chunk) == << >>

\* The locals after a chunk with finish_reason: lines 144-147.
BuilderAfterFinish(b) ==
    [b EXCEPT !.sent_message_start = FALSE,
              !.current_block_index = 0,
              !.sent_content_block_starts = {}]

\* One iteration of `async for chunk in openai_sse_generator`: the events it
\* yields and the locals after it.
BuilderStep(b, chunk) ==
    LET start == IF b.sent_message_start THEN << >> ELSE <<MessageStart(b.first_chunk_id)>>
        b1 == [b EXCEPT !.sent_message_start = TRUE]
        text == IF chunk.choices THEN BuilderTextEvents(b1, chunk) ELSE << >>
        b2 == IF chunk.choices /\ chunk.content # << >>
              THEN [b1 EXCEPT !.sent_content_block_starts = @ \cup {b1.current_block_index}]
              ELSE b1
        tools == IF chunk.choices /\ chunk.tool_calls # << >>
                 THEN BuilderToolEvents(b2, chunk) ELSE << >>
        fin == chunk.choices /\ chunk.finish_reason # ""
        closing == IF fin
                   THEN (IF b2.current_block_index \in b2.sent_content_block_starts
                         THEN <<BlockStop(b2.current_block_index)>> ELSE << >>)
                        \o BuildMessageCompletionEvents(chunk.finish_reason, chunk.usage)
                   ELSE << >>
    IN  [ev |-> start \o text \o tools \o closing,
         b |-> IF fin THEN BuilderAfterFinish(b2) ELSE b2]

----------------------------------------------------------------------------
(* _handle_streaming_response (message_flow_orchestrator.py) *)

\* The events of the except clauses, lines 64-96.
OrchErrorEvents(e) ==
    IF e.kind = "http"
    THEN generate_anthropic_error_sse_event(
             translate_openai_error_to_anthropic_format(IF e.json THEN e.raw_type ELSE {}))
    ELSE generate_anthropic_error_sse_event("internal_server_error")

\* Line 40 reads the first chunk, lines 41-42 latch its id, and the builder
\* receives it from combined_stream.
OrchFirstChunk(chunk) ==
    /\ handler = "orch" /\ pc = "start"
    /\ Len(inp) < MaxChunks
    /\ LET b0 == [builder EXCEPT !.first_chunk_id =
                      IF chunk.id # "" THEN chunk.id ELSE @]
           r == BuilderStep(b0, chunk)
       IN  /\ builder' = r.b
           /\ out' = out \o r.ev
    /\ inp' = Append(inp, chunk)
    /\ pc' = "stream"
    /\ UNCHANGED <<handler, exc, hs>>
    /\ UNCHANGED <<ends, idleVars>>

\* Line 50: StopAsyncIteration on the first read; the builder loops over nothing.
OrchEmptyStream ==
    /\ handler = "orch" /\ pc = "start"
    /\ pc' = "done"
    /\ UNCHANGED <<handler, inp, exc, out, builder, hs>>
    /\ UNCHANGED <<ends, idleVars>>

\* Line 40 raises something else than StopAsyncIteration: no except clause of
\* the first try matches, the exception leaves the generator.
OrchFirstRaise(e) ==
    /\ handler = "orch" /\ pc = "start"
    /\ exc' = e
    /\ pc' = "raised"
    /\ UNCHANGED <<handler, inp, out, builder, hs>>
    /\ UNCHANGED <<ends, idleVars>>

\* combined_stream yields the next chunk to the builder.
OrchNextChunk(chunk) ==
    /\ handler = "orch" /\ pc = "stream"
    /\ Len(inp) < MaxChunks
    /\ LET r == BuilderStep(builder, chunk)
       IN  /\ builder' = r.b
           /\ out' = out \o r.ev
    /\ inp' = Append(inp, chunk)
    /\ UNCHANGED <<handler, pc, exc, hs>>
    /\ UNCHANGED <<ends, idleVars>>

\* The upstream ends: the builder's loop ends and yields nothing more.
OrchStreamEnd ==
    /\ handler = "orch" /\ pc = "stream"
    /\ pc' = "done"
    /\ UNCHANGED <<handler, inp, exc, out, builder, hs>>
    /\ UNCHANGED <<ends, idleVars>>

\* The upstream raises inside the builder's loop: lines 64-96.
OrchStreamRaise(e) ==
    /\ handler = "orch" /\ pc = "stream"
    /\ exc' = e
    /\ out' = out \o OrchErrorEvents(e)
    /\ pc' = "done"
    /\ UNCHANGED <<handler, inp, builder, hs>>
    /\ UNCHANGED <<ends, idleVars>>

\* The client disconnects while line 40 or the builder's loop awaits the
\* upstream read: asyncio.CancelledError is raised at the read. It is no
\* Exception, so no except clause of lines 50-96 catches it: it ends the
\* upstream generator and leaves _handle_streaming_response.
OrchCancelAtRead ==
    /\ handler = "orch" /\ pc \in {"start", "stream"}
    /\ pc' = "cancelled"
    /\ ends' = [disconnect |-> "read", delivered |-> Len(out), upstream_closed |-> TRUE]
    /\ UNCHANGED <<handler, inp, exc, out, builder, hs>>
    /\ UNCHANGED idleVars

\* The generator is closed (aclose) while it is suspended at the yield of
\* line 59-63: GeneratorExit is raised there and leaves the generator. The
\* function has no finally clause and does not close the generators it reads.
OrchCloseAtYield ==
    /\ handler = "orch" /\ pc = "stream" /\ out # << >>
    /\ pc' = "cancelled"
    /\ ends' = [disconnect |-> "yield", delivered |-> Len(out), upstream_closed |-> FALSE]
    /\ UNCHANGED <<handler, inp, exc, out, builder, hs>>
    /\ UNCHANGED idleVars

\* The event loop's asynchronous-generator finalizer closes the generators
\* that a closed handler left suspended, the upstream iterator last.
AsyncgenFinalizer ==
    /\ ends.disconnect = "yield" /\ ~ends.upstream_closed
    /\ ends' = [ends EXCEPT !.upstream_closed = TRUE]
    /\ UNCHANGED <<handler, pc, inp, exc, out, builder, hs>>
    /\ UNCHANGED idleVars

OrchNext ==
    \/ \E chunk \in Chunks : OrchFirstChunk(chunk)
    \/ OrchEmptyStream
    \/ \E e \in Exceptions : OrchFirstRaise(e)
    \/ \E chunk \in Chunks : OrchNextChunk(chunk)
    \/ OrchStreamEnd
    \/ \E e \in Exceptions : OrchStreamRaise(e)
    \/ OrchCancelAtRead
    \/ OrchCloseAtYield
    \/ AsyncgenFinalizer

----------------------------------------------------------------------------
(* handle_streaming (anthropic_proxy/app/api/endpoints/messages.py) *)

\* Lines 79-83: usage carried by the chunk.
HsUsage(h, chunk) ==
    IF chunk.usage.present
    THEN [h EXCEPT !.input_tokens = chunk.usage.prompt_tokens,
                   !.output_tokens = chunk.usage.completion_tokens]
    ELSE h

\* Lines 95-99: delta.content.
HsText(r, chunk) ==
    IF chunk.content # << >>
    THEN LET h1 == [r.h EXCEPT !.accumulated_text = @ \o chunk.content]
         IN  IF h1.current_tool_call_litellm_index = NoneInt /\ ~h1.text_block_closed
             THEN [h |-> [h1 EXCEPT !.text_sent = TRUE],
                   ev |-> r.ev \o <<TextDelta(0, chunk.content)>>]
             ELSE [h |-> h1, ev |-> r.ev]
    ELSE r

\* HsCloseText without lines 114-116: a text block that never carried text is
\* left open when the first tool call begins (C8_ToolUseIsBlockOne detects it).
HsCloseTextOnlyIfText(r) ==
    IF ~r.h.text_block_closed /\ r.h.text_sent
    THEN [h |-> [r.h EXCEPT !.text_block_closed = TRUE], ev |-> r.ev \o <<BlockStop(0)>>]
    ELSE IF ~r.h.text_block_closed /\ r.h.accumulated_text # << >>
    THEN [h |-> [r.h EXCEPT !.text_sent = TRUE, !.text_block_closed = TRUE],
          ev |-> r.ev \o <<TextDelta(0, r.h.accumulated_text), BlockStop(0)>>]
    ELSE r

\* Lines 106-116: the text block is closed when a delta carries tool calls.
HsCloseText(r) ==
    IF ~r.h.text_block_closed /\ r.h.text_sent
    THEN [h |-> [r.h EXCEPT !.text_block_closed = TRUE], ev |-> r.ev \o <<BlockStop(0)>>]
    ELSE IF ~r.h.text_block_closed /\ r.h.accumulated_text # << >>
    THEN [h |-> [r.h EXCEPT !.text_sent = TRUE, !.text_block_closed = TRUE],
          ev |-> r.ev \o <<TextDelta(0, r.h.accumulated_text), BlockStop(0)>>]
    ELSE IF ~r.h.text_block_closed
    THEN [h |-> [r.h EXCEPT !.text_block_closed = TRUE], ev |-> r.ev \o <<BlockStop(0)>>]
    ELSE r

\* Line 125: the entry starts a new tool block.
HsIsNewTool(h, litellm_idx) ==
    /\ litellm_idx # NoneInt
    /\ (h.current_tool_call_litellm_index = NoneInt
        \/ h.current_tool_call_litellm_index # litellm_idx)

\* HsToolCall without lines 126-127: the previous tool block is left open
\* when a new tool call begins (C32_OneOpenBlock detects it).
HsToolCallWithoutStop(r, tool_call_chunk) ==
    LET litellm_idx == tool_call_chunk.index
        r1 == IF HsIsNewTool(r.h, litellm_idx)
              THEN LET h1 == [r.h EXCEPT
                                 !.current_tool_call_litellm_index = litellm_idx,
                                 !.anthropic_tool_block_idx_counter = @ + 1,
                                 !.tool_content = << >>]
                   IN  [h |-> h1,
                        ev |-> r.ev
                               \o <<BlockStartTool(h1.anthropic_tool_block_idx_counter,
                                                   tool_call_chunk.id, tool_call_chunk.name,
                                                   litellm_idx)>>]
              ELSE r
        arguments_delta == tool_call_chunk.arguments
    IN  IF arguments_delta # << >>
        THEN [h |-> [r1.h EXCEPT !.tool_content = @ \o arguments_delta],
              ev |-> r1.ev \o <<InputJsonDelta(r1.h.anthropic_tool_block_idx_counter,
                                                arguments_delta)>>]
        ELSE r1

\* Lines 120-153: one entry of delta.tool_calls.
HsToolCall(r, tool_call_chunk) ==
    LET litellm_idx == tool_call_chunk.index
        r1 == IF HsIsNewTool(r.h, litellm_idx)
              THEN LET stopPrev ==
                           IF r.h.current_tool_call_litellm_index # NoneInt
                           THEN <<BlockStop(r.h.anthropic_tool_block_idx_counter)>>
                           ELSE << >>
                       h1 == [r.h EXCEPT
                                 !.current_tool_call_litellm_index = litellm_idx,
                                 !.anthropic_tool_block_idx_counter = @ + 1,
                                 !.tool_content = << >>]
                   IN  [h |-> h1,
                        ev |-> r.ev \o stopPrev
                               \o <<BlockStartTool(h1.anthropic_tool_block_idx_counter,
                                                   tool_call_chunk.id, tool_call_chunk.name,
                                                   litellm_idx)>>]
              ELSE r
        arguments_delta == tool_call_chunk.arguments
    IN  IF arguments_delta # << >>
        THEN [h |-> [r1.h EXCEPT !.tool_content = @ \o arguments_delta],
              ev |-> r1.ev \o <<InputJsonDelta(r1.h.anthropic_tool_block_idx_counter,
                                                arguments_delta)>>]
        ELSE r1

\* Line 119: `for tool_call_chunk in delta_tool_calls`.
RECURSIVE HsToolCalls(_, _)
HsToolCalls(r, calls) ==
    IF calls = << >> THEN r
    ELSE HsToolCalls(HsToolCall(r, Head(calls)), Tail(calls))

\* Lines 164-166.
HsStopReason(finish_reason) ==
    IF finish_reason = "length" THEN "max_tokens"
    ELSE IF finish_reason = "tool_calls" THEN "tool_use"
    ELSE "end_turn"

\* Lines 169-173 and 188-191: message_delta with the usage known so far.
HsMessageDelta(h, stop_reason) ==
    MessageDelta(stop_reason, h.output_tokens,
                 IF h.input_tokens > 0 THEN h.input_tokens ELSE NoneInt)

\* Lines 155-176: the chunk carries finish_reason.
HsFinish(r, chunk) ==
    LET h1 == [r.h EXCEPT !.has_sent_stop_reason = TRUE]
        closeTool == h1.current_tool_call_litellm_index # NoneInt
        closeText == ~closeTool /\ ~h1.text_block_closed
        h2 == IF closeText THEN [h1 EXCEPT !.text_block_closed = TRUE] ELSE h1
        stop == IF closeTool THEN <<BlockStop(h1.anthropic_tool_block_idx_counter)>>
                ELSE IF closeText THEN <<BlockStop(0)>>
                ELSE << >>
    IN  [h |-> h2,
         ev |-> r.ev \o stop
                \o <<HsMessageDelta(h2, HsStopReason(chunk.finish_reason)), MessageStop>>]

\* The chunk makes the handler return (line 176).
HsReturns(h, chunk) ==
    chunk.choices /\ chunk.finish_reason # "" /\ ~h.has_sent_stop_reason

\* One iteration of `async for chunk in response_generator`, lines 76-179.
HsStep(h, chunk) ==
    LET r0 == [h |-> HsUsage(h, chunk), ev |-> << >>]
        r1 == IF chunk.choices THEN HsText(r0, chunk) ELSE r0
        r2 == IF chunk.choices /\ chunk.tool_calls # << >>
              THEN HsToolCalls(HsCloseText(r1), chunk.tool_calls)
              ELSE r1
    IN  IF HsReturns(r2.h, chunk) THEN HsFinish(r2, chunk) ELSE r2

\* HsFallback without lines 188-192: the open blocks are stopped but the
\* message is not completed (C33_OneCompletion detects it).
HsFallbackStopsOnly(h) ==
    IF ~h.has_sent_stop_reason
    THEN (IF h.current_tool_call_litellm_index # NoneInt
          THEN <<BlockStop(h.anthropic_tool_block_idx_counter)>> ELSE << >>)
         \o (IF ~h.text_block_closed THEN <<BlockStop(0)>> ELSE << >>)
    ELSE << >>

\* Lines 182-192: the upstream ended without a finish_reason.
HsFallback(h) ==
    IF ~h.has_sent_stop_reason
    THEN (IF h.current_tool_call_litellm_index # NoneInt
          THEN <<BlockStop(h.anthropic_tool_block_idx_counter)>> ELSE << >>)
         \o (IF ~h.text_block_closed THEN <<BlockStop(0)>> ELSE << >>)
         \o <<HsMessageDelta(h, "end_turn"), MessageStop>>
    ELSE << >>

\* Lines 194-200: the outer except clause.
HsErrorEvents == <<MessageDelta("error", 0, NoneInt), MessageStop>>

\* Lines 201-204: the finally clause.
HsFinally == <<DoneSentinel>>

\* Lines 34-73: message_start, the text block at index 0 and a ping are
\* emitted before the first chunk is read.
HsStart ==
    /\ handler = "hs" /\ pc = "start"
    /\ out' = out \o <<MessageStart("msg_uuid"), BlockStartText(0), Ping>>
    /\ pc' = "stream"
    /\ UNCHANGED <<handler, inp, exc, builder, hs>>
    /\ UNCHANGED <<ends, idleVars>>

HsChunk(chunk) ==
    /\ handler = "hs" /\ pc = "stream"
    /\ Len(inp) < MaxChunks
    /\ LET r == HsStep(hs, chunk)
       IN  /\ hs' = r.h
           /\ IF HsReturns(HsUsage(hs, chunk), chunk)
              THEN out' = out \o r.ev \o HsFinally /\ pc' = "done"
              ELSE out' = out \o r.ev /\ pc' = pc
    /\ inp' = Append(inp, chunk)
    /\ UNCHANGED <<handler, exc, builder>>
    /\ UNCHANGED <<ends, idleVars>>

HsStreamEnd ==
    /\ handler = "hs" /\ pc = "stream"
    /\ out' = out \o HsFallback(hs) \o HsFinally
    /\ pc' = "done"
    /\ UNCHANGED <<handler, inp, exc, builder, hs>>
    /\ UNCHANGED <<ends, idleVars>>

\* The upstream iterator raises: the outer except, then the finally clause.
HsStreamRaise(e) ==
    /\ handler = "hs" /\ pc = "stream"
    /\ exc' = e
    /\ out' = out \o HsErrorEvents \o HsFinally
    /\ pc' = "done"
    /\ UNCHANGED <<handler, inp, builder, hs>>
    /\ UNCHANGED <<ends, idleVars>>

\* The client disconnects while line 76 awaits the upstream read:
\* asyncio.CancelledError is raised at the read and ends the upstream
\* iterator. The except clauses (Exception) do not catch it, the finally
\* clause of lines 201-204 runs and yields the sentinel to the consumer.
HsCancelAtRead ==
    /\ handler = "hs" /\ pc = "stream"
    /\ out' = out \o HsFinally
    /\ pc' = "cancelled"
    /\ ends' = [disconnect |-> "read", delivered |-> Len(out), upstream_closed |-> TRUE]
    /\ UNCHANGED <<handler, inp, exc, builder, hs>>
    /\ UNCHANGED idleVars

\* The generator is closed (aclose) while it is suspended at a yield:
\* GeneratorExit is raised there, the finally clause yields the sentinel, and
\* Python turns that yield into RuntimeError("async generator ignored
\* GeneratorExit"), which leaves aclose(); the sentinel reaches nobody.
HsCloseAtYield ==
    /\ handler = "hs" /\ pc = "stream"
    /\ pc' = "raised"
    /\ ends' = [disconnect |-> "yield", delivered |-> Len(out), upstream_closed |-> FALSE]
    /\ UNCHANGED <<handler, inp, exc, out, builder, hs>>
    /\ UNCHANGED idleVars

HsNext ==
    \/ HsStart
    \/ \E chunk \in Chunks : HsChunk(chunk)
    \/ HsStreamEnd
    \/ \E e \in Exceptions : HsStreamRaise(e)
    \/ HsCancelAtRead
    \/ HsCloseAtYield
    \/ AsyncgenFinalizer

Next == OrchNext \/ HsNext

\* A request served by either handler.
Spec == Init /\ [][Next]_vars

\* A request served by _handle_streaming_response.
InitOrch == Init /\ handler = "orch"
SpecOrch == InitOrch /\ [][OrchNext]_vars

\* A request served by handle_streaming.
InitHs == Init /\ handler = "hs"
SpecHs == InitHs /\ [][HsNext]_vars

----------------------------------------------------------------------------
(* Two requests served by the same stream function of one process:          *)
(* simplified_handle_streaming (src/api/endpoints/messages.py) or           *)
(* translate_openai_to_anthropic_stream                                     *)
(* (src/services/openai_to_anthropic_translator.py). Both functions keep    *)
(* flags as attributes of the function object (hasattr/setattr/delattr),    *)
(* which every call of the function sees.                                   *)

Reqs == {"A", "B"}

\* The chunks the two requests read.
SharedChunks ==
    {UsageOnlyChunk, TextChunk(<<"He">>),
     ToolChunk(<<HeaderFrag(0)>>), ToolChunk(<<ArgFrag(0, <<"{x:">>)>>),
     ToolChunk(<<HeaderFrag(1)>>),
     FinishChunk("stop", SomeUsage), FinishChunk("tool_calls", NoUsage)}

\* Lines 37-41 of simplified_handle_streaming; of tool_calls_chunks only the
\* keys decide what is emitted.
ShsInit == [first_chunk |-> TRUE, tool_calls_chunks |-> {}]

ReqInit == [pc |-> "stream", inp |-> << >>, out |-> << >>, shs |-> ShsInit]

RECURSIVE SortedSeq(_)
SortedSeq(S) ==
    IF S = {} THEN << >>
    ELSE LET m == CHOOSE x \in S : \A y \in S : x <= y
         IN  <<m>> \o SortedSeq(S \ {m})

\* Lines 45-82: message_start and ping on the first chunk.
ShsFirstChunk(l, chunk) ==
    IF l.first_chunk
    THEN <<MessageStart(IF chunk.id # "" THEN chunk.id ELSE "msg_fallback"), Ping>>
    ELSE << >>

\* Lines 107-151: one entry of delta.tool_calls. The block index is the
\* upstream index (line 114) and the start event carries no name (line 122).
ShsToolCall(r, tc_chunk) ==
    LET current_tool_block_index == tc_chunk.index
        isNew == current_tool_block_index \notin r.l.tool_calls_chunks
        start == IF isNew
                 THEN <<BlockStartTool(current_tool_block_index, tc_chunk.id, "",
                                       tc_chunk.index)>>
                 ELSE << >>
        delta == IF tc_chunk.arguments # << >>
                 THEN <<InputJsonDelta(current_tool_block_index, tc_chunk.arguments)>>
                 ELSE << >>
    IN  [r EXCEPT !.l.tool_calls_chunks = @ \cup {current_tool_block_index},
                  !.ev = @ \o start \o delta]

RECURSIVE ShsToolCalls(_, _)
ShsToolCalls(r, calls) ==
    IF calls = << >> THEN r
    ELSE ShsToolCalls(ShsToolCall(r, Head(calls)), Tail(calls))

\* Lines 154-196: delta.content; the block start is guarded by the function
\* attribute _content_block_started_0.
ShsText(r, chunk) ==
    IF chunk.content # << >>
    THEN [r EXCEPT !.a.content_block_started_0 = TRUE,
                   !.ev = @ \o (IF r.a.content_block_started_0 THEN << >>
                                ELSE <<BlockStartText(0)>>)
                            \o <<TextDelta(0, chunk.content)>>]
    ELSE r

\* Lines 198-236: finish_reason. The chunk is taken to carry x_groq = None.
ShsFinish(r, chunk) ==
    LET stopText == IF r.a.content_block_started_0 THEN <<BlockStop(0)>> ELSE << >>
        stopTools ==
            IF chunk.finish_reason = "tool_calls"
               \/ (chunk.tool_calls # << >> /\ chunk.content = << >>)
            THEN LET ks == SortedSeq(r.l.tool_calls_chunks)
                 IN  [k \in 1..Len(ks) |-> BlockStop(ks[k])]
            ELSE << >>
        input_tokens == IF chunk.usage.present THEN chunk.usage.prompt_tokens ELSE 0
        output_tokens == IF chunk.usage.present THEN chunk.usage.completion_tokens ELSE 0
        stop_reason == IF chunk.finish_reason # "tool_calls"
                       THEN chunk.finish_reason ELSE "tool_use"
    IN  [r EXCEPT !.a.content_block_started_0 = FALSE,
                  !.returns = TRUE,
                  !.ev = @ \o stopText \o stopTools
                           \o <<MessageDelta(stop_reason, output_tokens, input_tokens),
                                MessageStop>>]

\* One iteration of `async for chunk in litellm_response_chunks`, lines 43-236:
\* the events, the locals l and the function attributes a after it.
ShsStep(l, a, chunk) ==
    LET r0 == [l |-> [l EXCEPT !.first_chunk = FALSE], a |-> a,
               ev |-> ShsFirstChunk(l, chunk), returns |-> FALSE]
    IN  IF ~chunk.choices THEN r0
        ELSE LET r1 == IF chunk.tool_calls # << >>
                       THEN ShsToolCalls(r0, chunk.tool_calls) ELSE r0
                 r2 == ShsText(r1, chunk)
             IN  IF chunk.finish_reason # "" THEN ShsFinish(r2, chunk) ELSE r2

\* One iteration of `async for chunk in openai_sse_generator`, lines 161-215 of
\* translate_openai_to_anthropic_stream; its state is the function attribute
\* sent_message_start (current_block_index is always 0).
TosStep(l, a, chunk) ==
    LET r0 == [l |-> l, a |-> a, ev |-> << >>, returns |-> FALSE]
    IN  IF ~chunk.choices THEN r0
        ELSE LET r1 == IF chunk.content # << >>
                       THEN [r0 EXCEPT
                               !.a.sent_message_start = TRUE,
                               !.ev = (IF a.sent_message_start THEN << >>
                                       ELSE <<MessageStart(chunk.id), BlockStartText(0)>>)
                                      \o <<TextDelta(0, chunk.content)>>]
                       ELSE r0
             IN  IF chunk.finish_reason # ""
                 THEN [r1 EXCEPT
                         !.a.sent_message_start = FALSE,
                         !.ev = @ \o <<BlockStop(0),
                                       MessageDelta(chunk.finish_reason,
                                           IF chunk.usage.present
                                           THEN chunk.usage.completion_tokens ELSE 0,
                                           NoneInt),
                                       MessageStop>>]
                 ELSE r1

SharedInit ==
    /\ fn \in {"shs", "tos"}
    /\ req = [r \in Reqs |-> ReqInit]
    /\ attrs = NoAttrs
    /\ call = NoCall
    /\ ret = NotReturned
    /\ handler = "none"
    /\ pc = "done"
    /\ inp = << >>
    /\ exc = NoException
    /\ out = << >>
    /\ builder = BuilderInit
    /\ hs = HsInit
    /\ ends = EndsInit

\* Request r of simplified_handle_streaming reads a chunk.
ShsChunk(r, chunk) ==
    /\ fn = "shs" /\ req[r].pc = "stream"
    /\ Len(req[r].inp) < MaxChunksPerRequest
    /\ LET s == ShsStep(req[r].shs, attrs, chunk)
       IN  /\ req' = [req EXCEPT ![r].inp = Append(@, chunk),
                                 ![r].out = @ \o s.ev,
                                 ![r].shs = s.l,
                                 ![r].pc = IF s.returns THEN "done" ELSE @]
           /\ attrs' = s.a
    /\ UNCHANGED <<fn, streamVars, callVars>>

\* Lines 238-240: the upstream of request r ends, the attribute is removed.
ShsStreamEnd(r) ==
    /\ fn = "shs" /\ req[r].pc = "stream"
    /\ req' = [req EXCEPT ![r].pc = "done"]
    /\ attrs' = [attrs EXCEPT !.content_block_started_0 = FALSE]
    /\ UNCHANGED <<fn, streamVars, callVars>>

\* Request r of translate_openai_to_anthropic_stream reads a chunk.
TosChunk(r, chunk) ==
    /\ fn = "tos" /\ req[r].pc = "stream"
    /\ Len(req[r].inp) < MaxChunksPerRequest
    /\ LET s == TosStep(req[r].shs, attrs, chunk)
       IN  /\ req' = [req EXCEPT ![r].inp = Append(@, chunk),
                                 ![r].out = @ \o s.ev]
           /\ attrs' = s.a
    /\ UNCHANGED <<fn, streamVars, callVars>>

\* Line 218: the upstream of request r ends.
TosStreamEnd(r) ==
    /\ fn = "tos" /\ req[r].pc = "stream"
    /\ req' = [req EXCEPT ![r].pc = "done"]
    /\ UNCHANGED <<fn, attrs, streamVars, callVars>>

\* The upstream of request r raises: neither function has an except clause,
\* the exception leaves the generator.
SharedStreamRaise(r) ==
    /\ fn \in {"shs", "tos"} /\ req[r].pc = "stream"
    /\ req' = [req EXCEPT ![r].pc = "raised"]
    /\ UNCHANGED <<fn, attrs, streamVars, callVars>>

\* The consumer of request r closes the generator where it is suspended
\* (client disconnect): no statement of the function runs any more.
SharedAbandon(r) ==
    /\ fn \in {"shs", "tos"} /\ req[r].pc = "stream"
    /\ req' = [req EXCEPT ![r].pc = "abandoned"]
    /\ UNCHANGED <<fn, attrs, streamVars, callVars>>

SharedNext ==
    \/ \E r \in Reqs, chunk \in SharedChunks : ShsChunk(r, chunk)
    \/ \E r \in Reqs : ShsStreamEnd(r)
    \/ \E r \in Reqs, chunk \in SharedChunks : TosChunk(r, chunk)
    \/ \E r \in Reqs : TosStreamEnd(r)
    \/ \E r \in Reqs : SharedStreamRaise(r)
    \/ \E r \in Reqs : SharedAbandon(r)

\* Two requests served by the same stream function, interleaved at will.
SpecShared == SharedInit /\ [][SharedNext]_vars

----------------------------------------------------------------------------
(* Request translation: _translate_anthropic_messages_to_openai             *)
(* (src/services/request_translator_service.py; the copy in                 *)
(* src/services/anthropic_to_openai_translator.py, lines 18-142, has the    *)
(* same statements). Strings are sequences of characters.                   *)

Whitespace == {" ", "\n"}

\* JSON values are named; json.dumps gives each its serialisation.
JsonValues == {"obj1", "obj2", "list1"}
json_dumps(v) ==
    CASE v = "obj1" -> <<"{", "p", ":", "1", "}">>
      [] v = "obj2" -> <<"{", "q", ":", "2", "}">>
      [] OTHER -> <<"[", "{", "}", "]">>

\* Content blocks of the Anthropic schema (anthropic_api.py, lines 5-32).
Block(t) ==
    [type |-> t, text |-> << >>, id |-> "", name |-> "", media_type |-> "",
     data |-> "", is_str |-> TRUE, json |-> ""]
AnthropicContentBlockText(text) == [Block("text") EXCEPT !.text = text]
AnthropicContentBlockImage(media_type, data) ==
    [Block("image") EXCEPT !.media_type = media_type, !.data = data]
AnthropicContentBlockToolUse(id, name, input) ==
    [Block("tool_use") EXCEPT !.id = id, !.name = name, !.is_str = FALSE, !.json = input]
\* tool_result whose content is a string
ToolResultStr(tool_use_id, content) ==
    [Block("tool_result") EXCEPT !.id = tool_use_id, !.text = content]
\* tool_result whose content is a list of objects
ToolResultJson(tool_use_id, content) ==
    [Block("tool_result") EXCEPT !.id = tool_use_id, !.is_str = FALSE, !.json = content]

\* AnthropicMessage: content is a string (blocks unused) or a block list.
StrMessage(role, text) == [role |-> role, is_str |-> TRUE, text |-> text, blocks |-> << >>]
ListMessage(role, blocks) == [role |-> role, is_str |-> FALSE, text |-> << >>, blocks |-> blocks]

\* Upstream messages (openai_provider_models.py, lines 36-58). content is
\* None, a string or a list of parts; origin is not on the wire: it is the
\* position of the Anthropic message the upstream message was built from
\* (0 for the system prompt).
NoneContent == [kind |-> "none", text |-> << >>, parts |-> << >>]
StrContent(text) == [kind |-> "str", text |-> text, parts |-> << >>]
PartsContent(parts) == [kind |-> "parts", text |-> << >>, parts |-> parts]

OpenAIMessage(role, content, origin) ==
    [role |-> role, content |-> content, tool_call_id |-> "", tool_calls |-> << >>,
     origin |-> origin]
OpenAIChatMessageSystem(content, origin) == OpenAIMessage("system", StrContent(content), origin)
OpenAIChatMessageUser(content, origin) == OpenAIMessage("user", content, origin)
OpenAIChatMessageTool(tool_call_id, content, origin) ==
    [OpenAIMessage("tool", StrContent(content), origin) EXCEPT !.tool_call_id = tool_call_id]
\* tool_calls << >> is tool_calls=None
OpenAIChatMessageAssistant(content, tool_calls, origin) ==
    [OpenAIMessage("assistant", content, origin) EXCEPT !.tool_calls = tool_calls]

OpenAIMessageContentPartText(text) == [type |-> "text", text |-> text, url |-> << >>]
OpenAIMessageContentPartImage(url) == [type |-> "image_url", text |-> << >>, url |-> url]
OpenAIToolCall(id, name, arguments) == [id |-> id, name |-> name, arguments |-> arguments]

\* "\n".join(parts)
RECURSIVE JoinLines(_)
JoinLines(parts) ==
    IF parts = << >> THEN << >>
    ELSE IF Len(parts) = 1 THEN parts[1]
    ELSE parts[1] \o <<"\n">> \o JoinLines(Tail(parts))

\* str.lstrip(), str.rstrip() and str.strip() on the characters of Whitespace
RECURSIVE LStrip(_)
LStrip(str) ==
    IF str # << >> /\ Head(str) \in Whitespace THEN LStrip(Tail(str)) ELSE str
RECURSIVE RStrip(_)
RStrip(str) ==
    IF str # << >> /\ str[Len(str)] \in Whitespace
    THEN RStrip(SubSeq(str, 1, Len(str) - 1)) ELSE str
Strip(str) == RStrip(LStrip(str))

\* The image part of lines 86-95: a data URL, media type image/jpeg by default.
ImageUrl(block) ==
    <<"data:", IF block.media_type # "" THEN block.media_type ELSE "image/jpeg",
      ";base64,", block.data>>

\* Lines 97-106: the content of a tool message.
ToolContentStr(block) == IF block.is_str THEN block.text ELSE json_dumps(block.json)

\* f applied to every element of a sequence
MapSeq(f(_), sq) == [k \in 1..Len(sq) |-> f(sq[k])]

\* SystemMessages without the strip() of line 67: the joined text is sent as
\* it is (C18_SystemPromptConcatenation detects it).
SystemMessagesUnstripped(sys) ==
    LET truthy == (sys.kind = "str" /\ sys.text # << >>)
                  \/ (sys.kind = "list" /\ sys.blocks # << >>)
        system_content ==
            IF sys.kind = "str" THEN sys.text
            ELSE JoinLines(MapSeq(LAMBDA b : b.text,
                                  SelectSeq(sys.blocks, LAMBDA b : b.type = "text")))
    IN  IF truthy /\ system_content # << >> /\ Strip(system_content) # << >>
        THEN <<OpenAIChatMessageSystem(system_content, 0)>>
        ELSE << >>

\* Lines 53-68: the system prompt. sys.kind is "none", "str" or "list".
SystemMessages(sys) ==
    LET truthy == (sys.kind = "str" /\ sys.text # << >>)
                  \/ (sys.kind = "list" /\ sys.blocks # << >>)
        system_content ==
            IF sys.kind = "str" THEN sys.text
            ELSE JoinLines(MapSeq(LAMBDA b : b.text,
                                  SelectSeq(sys.blocks, LAMBDA b : b.type = "text")))
    IN  IF truthy /\ system_content # << >> /\ Strip(system_content) # << >>
        THEN <<OpenAIChatMessageSystem(Strip(system_content), 0)>>
        ELSE << >>

\* UserFromParts without lines 133-140: an empty block list yields no user
\* message (C17_UserMessageIff detects it).
UserFromPartsOnlyIfParts(msg, parts, tool_results, origin) ==
    IF parts # << >>
    THEN IF Len(parts) = 1 /\ parts[1].type = "text"
         THEN <<OpenAIChatMessageUser(StrContent(parts[1].text), origin)>>
         ELSE <<OpenAIChatMessageUser(PartsContent(parts), origin)>>
    ELSE << >>

\* Lines 116-140: the user message built from the text and image parts.
UserFromParts(msg, parts, tool_results, origin) ==
    IF parts # << >>
    THEN IF Len(parts) = 1 /\ parts[1].type = "text"
         THEN <<OpenAIChatMessageUser(StrContent(parts[1].text), origin)>>
         ELSE <<OpenAIChatMessageUser(PartsContent(parts), origin)>>
    ELSE IF msg.blocks = << >> /\ tool_results = << >>
    THEN <<OpenAIChatMessageUser(StrContent(<< >>), origin)>>
    ELSE << >>

\* UserMessages with lines 114-115 after lines 116-140: the tool messages
\* follow the user message (the claims on their order detect it).
UserMessagesToolsLast(msg, origin) ==
    IF msg.is_str THEN <<OpenAIChatMessageUser(StrContent(msg.text), origin)>>
    ELSE LET parts == MapSeq(LAMBDA b : IF b.type = "text"
                                        THEN OpenAIMessageContentPartText(b.text)
                                        ELSE OpenAIMessageContentPartImage(ImageUrl(b)),
                             SelectSeq(msg.blocks, LAMBDA b : b.type \in {"text", "image"}))
             tool_results == MapSeq(LAMBDA b : OpenAIChatMessageTool(b.id, ToolContentStr(b), origin),
                                    SelectSeq(msg.blocks, LAMBDA b : b.type = "tool_result"))
         IN  UserFromParts(msg, parts, tool_results, origin) \o tool_results

\* Lines 70-140: a message of role user.
UserMessages(msg, origin) ==
    IF msg.is_str THEN <<OpenAIChatMessageUser(StrContent(msg.text), origin)>>
    ELSE LET parts == MapSeq(LAMBDA b : IF b.type = "text"
                                        THEN OpenAIMessageContentPartText(b.text)
                                        ELSE OpenAIMessageContentPartImage(ImageUrl(b)),
                             SelectSeq(msg.blocks, LAMBDA b : b.type \in {"text", "image"}))
             tool_results == MapSeq(LAMBDA b : OpenAIChatMessageTool(b.id, ToolContentStr(b), origin),
                                    SelectSeq(msg.blocks, LAMBDA b : b.type = "tool_result"))
         IN  tool_results \o UserFromParts(msg, parts, tool_results, origin)

\* AssistantMessages with content="" where the code passes None (line 174).
AssistantMessagesEmptyContent(msg, origin) ==
    LET assistant_text_content_parts ==
            IF msg.is_str THEN <<msg.text>>
            ELSE MapSeq(LAMBDA b : b.text, SelectSeq(msg.blocks, LAMBDA b : b.type = "text"))
        assistant_tool_calls ==
            IF msg.is_str THEN << >>
            ELSE MapSeq(LAMBDA b : OpenAIToolCall(b.id, b.name, json_dumps(b.json)),
                        SelectSeq(msg.blocks, LAMBDA b : b.type = "tool_use"))
    IN  <<OpenAIChatMessageAssistant(StrContent(JoinLines(assistant_text_content_parts)),
                                     assistant_tool_calls, origin)>>

\* Lines 141-177: a message of role assistant.
AssistantMessages(msg, origin) ==
    LET assistant_text_content_parts ==
            IF msg.is_str THEN <<msg.text>>
            ELSE MapSeq(LAMBDA b : b.text, SelectSeq(msg.blocks, LAMBDA b : b.type = "text"))
        assistant_tool_calls ==
            IF msg.is_str THEN << >>
            ELSE MapSeq(LAMBDA b : OpenAIToolCall(b.id, b.name, json_dumps(b.json)),
                        SelectSeq(msg.blocks, LAMBDA b : b.type = "tool_use"))
        final_assistant_text_content ==
            IF assistant_text_content_parts # << >>
            THEN StrContent(JoinLines(assistant_text_content_parts))
            ELSE NoneContent
    IN  IF final_assistant_text_content = NoneContent /\ assistant_tool_calls = << >>
        THEN <<OpenAIChatMessageAssistant(StrContent(<< >>), << >>, origin)>>
        ELSE <<OpenAIChatMessageAssistant(final_assistant_text_content,
                                          assistant_tool_calls, origin)>>

\* TranslateFrom with current_message_tool_results initialised once before
\* the loop of line 69 and not in every message: the tool results of a user
\* message are emitted again with the user message that follows it
\* (C39_TranslationConcatenates detects it).
RECURSIVE TranslateFromCarryingToolResults(_, _)
TranslateFromCarryingToolResults(msgs, k) ==
    IF k > Len(msgs) THEN << >>
    ELSE (IF msgs[k].role = "user"
          THEN (IF k > 1 /\ msgs[k - 1].role = "user" /\ ~msgs[k - 1].is_str /\ ~msgs[k].is_str
                THEN MapSeq(LAMBDA b : OpenAIChatMessageTool(b.id, ToolContentStr(b), k),
                            SelectSeq(msgs[k - 1].blocks, LAMBDA b : b.type = "tool_result"))
                ELSE << >>)
               \o UserMessages(msgs[k], k)
          ELSE AssistantMessages(msgs[k], k))
         \o TranslateFromCarryingToolResults(msgs, k + 1)

\* Lines 69-177: `for msg in anthropic_messages`, from position k on.
RECURSIVE TranslateFrom(_, _)
TranslateFrom(msgs, k) ==
    IF k > Len(msgs) THEN << >>
    ELSE (IF msgs[k].role = "user" THEN UserMessages(msgs[k], k)
          ELSE AssistantMessages(msgs[k], k))
         \o TranslateFrom(msgs, k + 1)

\* Lines 34-178.
translate_anthropic_messages_to_openai(anthropic_messages, anthropic_system_prompt) ==
    SystemMessages(anthropic_system_prompt) \o TranslateFrom(anthropic_messages, 1)

\* The inputs of the translation: block lists of up to MaxBlocks blocks.
BlockLists(S) == UNION {[1..n -> S] : n \in 0..MaxBlocks}

UserBlocks ==
    {AnthropicContentBlockText(<<"a">>), AnthropicContentBlockText(<<"b">>),
     AnthropicContentBlockImage("", "d1"),
     ToolResultStr("t1", <<"r">>), ToolResultJson("t2", "list1"),
     AnthropicContentBlockToolUse("u1", "f1", "obj1")}

AssistantBlocks ==
    {AnthropicContentBlockText(<<"a">>), AnthropicContentBlockText(<< >>),
     AnthropicContentBlockToolUse("u1", "f1", "obj1"),
     AnthropicContentBlockToolUse("u2", "f2", "list1"),
     AnthropicContentBlockImage("image/png", "d1")}

SystemTexts == {<< >>, <<" ">>, <<"a">>, <<" ", "a", "\n">>}

NoSystem == [kind |-> "none", text |-> << >>, blocks |-> << >>]
StrSystem(text) == [kind |-> "str", text |-> text, blocks |-> << >>]
ListSystem(blocks) == [kind |-> "list", text |-> << >>, blocks |-> blocks]

\* The message under test alone, or with one message before or after it.
ContextMessages ==
    {StrMessage("user", <<"b">>),
     ListMessage("user", <<ToolResultStr("t0", <<"r">>)>>),
     ListMessage("assistant", <<AnthropicContentBlockToolUse("u0", "f0", "obj1")>>)}

InContext(m) == {<<m>>} \cup {<<c, m>> : c \in ContextMessages}
                        \cup {<<m, c>> : c \in ContextMessages}

MessagesCall(messages, system) == [fn |-> "messages", messages |-> messages, system |-> system]

UserCalls ==
    UNION {{MessagesCall(ms, NoSystem) : ms \in InContext(m)} :
              m \in {ListMessage("user", bl) : bl \in BlockLists(UserBlocks)}
                    \cup {StrMessage("user", t) : t \in {<< >>, <<"a">>}}}

AssistantCalls ==
    UNION {{MessagesCall(ms, NoSystem) : ms \in InContext(m)} :
              m \in {ListMessage("assistant", bl) : bl \in BlockLists(AssistantBlocks)}
                    \cup {StrMessage("assistant", t) : t \in {<< >>, <<"a">>}}}

SystemCalls ==
    {MessagesCall(ms, sys) :
        ms \in {<< >>} \cup {<<c>> : c \in ContextMessages},
        sys \in {NoSystem} \cup {StrSystem(t) : t \in SystemTexts}
                \cup {ListSystem(bl) :
                        bl \in BlockLists({AnthropicContentBlockText(t) : t \in SystemTexts})}}

\* No stream request is under way.
StreamIdle ==
    /\ handler = "none"
    /\ pc = "done"
    /\ inp = << >>
    /\ exc = NoException
    /\ out = << >>
    /\ builder = BuilderInit
    /\ hs = HsInit
    /\ ends = EndsInit

MessagesInit ==
    /\ call \in UserCalls \cup AssistantCalls \cup SystemCalls
    /\ ret = NotReturned
    /\ fn = NoFn
    /\ req = << >>
    /\ attrs = NoAttrs
    /\ StreamIdle

\* The call of _translate_anthropic_messages_to_openai returns.
TranslateMessages ==
    /\ call.fn = "messages" /\ ~ret.returned
    /\ ret' = [returned |-> TRUE,
               value |-> translate_anthropic_messages_to_openai(call.messages, call.system)]
    /\ UNCHANGED <<call, sharedVars, streamVars>>

MessagesNext == TranslateMessages

\* One call of _translate_anthropic_messages_to_openai.
SpecMessages == MessagesInit /\ [][MessagesNext]_vars

----------------------------------------------------------------------------
(* Reading the streams *)

OfType(s, t) == SelectSeq(s, LAMBDA e : e.type = t)
ToolStarts(s) == SelectSeq(s, LAMBDA e : e.type = "content_block_start" /\ e.kind = "tool_use")

RECURSIVE Concat(_)
Concat(ss) == IF ss = << >> THEN << >> ELSE Head(ss) \o Concat(Tail(ss))

\* The text of the input_json_delta events of block i, concatenated.
PartialJson(s, i) ==
    LET ds == SelectSeq(s, LAMBDA e : e.type = "content_block_delta"
                                      /\ e.kind = "input_json_delta" /\ e.index = i)
    IN  Concat([k \in 1..Len(ds) |-> ds[k].text])

\* The entries of delta.tool_calls of all chunks, in arrival order.
UpstreamToolCalls(chunks) ==
    Concat([k \in 1..Len(chunks) |->
               IF chunks[k].choices THEN chunks[k].tool_calls ELSE << >>])

\* The arguments the upstream sent for tool index i, concatenated.
UpstreamArguments(chunks, i) ==
    LET fs == SelectSeq(UpstreamToolCalls(chunks), LAMBDA f : f.index = i)
    IN  Concat([k \in 1..Len(fs) |-> fs[k].arguments])

UpstreamToolIdxs(chunks) ==
    LET fs == UpstreamToolCalls(chunks) IN {fs[k].index : k \in 1..Len(fs)}

\* The blocks started and not stopped within the first n events of s.
OpenBlocks(s, n) ==
    {s[p].index : p \in {p \in 1..n :
        /\ s[p].type = "content_block_start"
        /\ \A q \in (p+1)..n :
              ~(s[q].type = "content_block_stop" /\ s[q].index = s[p].index)}}

NoFinishReason(chunks) ==
    \A k \in 1..Len(chunks) : ~(chunks[k].choices /\ chunks[k].finish_reason # "")

\* An event that tells the client the stream failed.
IsErrorSignal(e) ==
    e.type = "error" \/ (e.type = "message_delta" /\ e.stop_reason = "error")

\* The automaton of
\*   message_start (content_block_start content_block_delta* content_block_stop)*
\*   (message_delta | error) message_stop
\* q: 0 start, 1 between blocks, 2 in a block, 3 after message_delta,
\*    4 after error, 5 accepted, 6 rejected.
BracketStep(q, t) ==
    CASE q = 0 /\ t = "message_start" -> 1
      [] q = 0 /\ t = "error" -> 4
      [] q = 1 /\ t = "content_block_start" -> 2
      [] q = 1 /\ t = "message_delta" -> 3
      [] q = 1 /\ t = "error" -> 4
      [] q = 2 /\ t = "content_block_delta" -> 2
      [] q = 2 /\ t = "content_block_stop" -> 1
      [] q = 3 /\ t = "message_stop" -> 5
      [] q = 4 /\ t = "message_stop" -> 5
      [] OTHER -> 6

RECURSIVE BracketRun(_, _)
BracketRun(q, s) == IF s = << >> THEN q ELSE BracketRun(BracketStep(q, Head(s).type), Tail(s))

Finished == pc \in {"done", "raised"}
Raised == exc # NoException

----------------------------------------------------------------------------
(* Claims about _handle_streaming_response / build_anthropic_sse_stream *)

\* C1: the event types of every finished orchestrated stream match
\* message_start (content_block_start content_block_delta* content_block_stop)*
\* message_delta message_stop, or end with error message_stop after complete
\* block groups when the upstream raised.
C1_StreamBracketing ==
    (handler = "orch" /\ Finished) =>
        /\ BracketRun(0, out) = 5
        /\ (~Raised => OfType(out, "error") = << >>)
        /\ (Raised => OfType(out, "message_delta") = << >>)

\* C2: when the upstream ends without any finish_reason (also when it yields
\* nothing), the orchestrated stream has no block left open and ends with
\* message_delta(stop_reason end_turn), message_stop.
C2_CloseOnStreamEnd ==
    (handler = "orch" /\ pc = "done" /\ ~Raised /\ NoFinishReason(inp)) =>
        /\ Len(out) >= 2
        /\ out[Len(out)].type = "message_stop"
        /\ out[Len(out) - 1].type = "message_delta"
        /\ out[Len(out) - 1].stop_reason = "end_turn"
        /\ OpenBlocks(out, Len(out)) = {}

\* C3: nothing is emitted after message_stop, so the orchestrated stream holds
\* at most one message_start and at most one message_stop.
C3_NothingAfterMessageStop ==
    handler = "orch" =>
        /\ \A k \in 1..Len(out) : out[k].type = "message_stop" => k = Len(out)
        /\ Len(OfType(out, "message_start")) <= 1
        /\ Len(OfType(out, "message_stop")) <= 1

\* C4 for _handle_streaming_response: no block is open where the error is signalled.
C4_OrchCloseBeforeError ==
    handler = "orch" =>
        \A k \in 1..Len(out) : IsErrorSignal(out[k]) => OpenBlocks(out, k - 1) = {}

\* C4 for handle_streaming: no block is open where the error is signalled.
C4_HsCloseBeforeError ==
    handler = "hs" =>
        \A k \in 1..Len(out) : IsErrorSignal(out[k]) => OpenBlocks(out, k - 1) = {}

\* C4: when the upstream raises while a content block is open, the block's
\* content_block_stop is emitted before the error is signalled to the client,
\* by _handle_streaming_response and by handle_streaming.
C4_CloseBeforeError == C4_OrchCloseBeforeError /\ C4_HsCloseBeforeError

\* C5: when the upstream raises mid-stream, the orchestrated stream holds
\* exactly one error event, followed by message_stop as the last event.
C5_ErrorThenMessageStop ==
    (handler = "orch" /\ pc = "done" /\ Raised) =>
        /\ Len(OfType(out, "error")) = 1
        /\ Len(out) >= 2
        /\ out[Len(out)].type = "message_stop"
        /\ out[Len(out) - 1].type = "error"

\* C6: an exception of the upstream iterator, at any position, never leaves
\* the response-body generator; it becomes an in-band error event.
C6_NoExceptionEscapes ==
    handler = "orch" =>
        /\ pc # "raised"
        /\ (Raised => OfType(out, "error") # << >>)

\* C7: the orchestrated stream opens one tool_use block per upstream tool index
\* (with the id the upstream gave), emits every arguments fragment as
\* input_json_delta, and closes every block before message_delta.
C7_OrchToolCalls ==
    (handler = "orch" /\ NoFinishReason(SubSeq(inp, 1, Len(inp) - 1))) =>
        /\ Len(ToolStarts(out)) = Cardinality(UpstreamToolIdxs(inp))
        /\ \A i \in UpstreamToolIdxs(inp) :
              \E k \in 1..Len(out) :
                 /\ out[k].type = "content_block_start" /\ out[k].kind = "tool_use"
                 /\ out[k].id = ToolId(i)
                 /\ PartialJson(out, out[k].index) = UpstreamArguments(inp, i)
        /\ \A k \in 1..Len(out) :
              out[k].type = "message_delta" => OpenBlocks(out, k - 1) = {}

----------------------------------------------------------------------------
(* Claims about handle_streaming *)

\* The upstream of the streaming tool call scenario: the first fragment of
\* tool index i with id and name, then arguments fragments of the same index,
\* then finish_reason tool_calls.
IsToolCallScenario(chunks, i) ==
    /\ Len(chunks) >= 2
    /\ chunks[1] = ToolChunk(<<HeaderFrag(i)>>)
    /\ \A k \in 2..(Len(chunks) - 1) :
          \E a \in ArgFrags : chunks[k] = ToolChunk(<<ArgFrag(i, a)>>)
    /\ chunks[Len(chunks)] = FinishChunk("tool_calls", NoUsage)

\* One input_json_delta on block b per arguments fragment of the scenario.
ScenarioDeltas(chunks, b) ==
    [k \in 1..(Len(chunks) - 2) |-> InputJsonDelta(b, chunks[k + 1].tool_calls[1].arguments)]

WithoutPingAndSentinel(s) == SelectSeq(s, LAMBDA e : e.type \notin {"ping", "[DONE]"})

\* C8 as stated: in the scenario the stream is exactly message_start,
\* content_block_start(0, tool_use, id, name), the input_json_deltas,
\* content_block_stop(0), message_delta(tool_use), message_stop (ping and the
\* [DONE] sentinel left aside).
C8_ToolUseIsBlockZero ==
    \A i \in ToolIdxs :
        (handler = "hs" /\ pc = "done" /\ IsToolCallScenario(inp, i)) =>
            WithoutPingAndSentinel(out) =
                <<MessageStart("msg_uuid"), BlockStartTool(0, ToolId(i), ToolName(i), i)>>
                \o ScenarioDeltas(inp, 0)
                \o <<BlockStop(0), MessageDelta("tool_use", 0, NoneInt), MessageStop>>

\* What handle_streaming emits in the scenario of C8: message_start,
\* content_block_start(0, text), ping, content_block_stop(0),
\* content_block_start(1, tool_use, id, name), one input_json_delta on block 1
\* per arguments fragment, content_block_stop(1), message_delta(tool_use),
\* message_stop, [DONE]: the tool_use block is the second block and has index 1.
C8_ToolUseIsBlockOne ==
    \A i \in ToolIdxs :
        (handler = "hs" /\ pc = "done" /\ IsToolCallScenario(inp, i)) =>
            out = <<MessageStart("msg_uuid"), BlockStartText(0), Ping, BlockStop(0),
                    BlockStartTool(1, ToolId(i), ToolName(i), i)>>
                  \o ScenarioDeltas(inp, 1)
                  \o <<BlockStop(1), MessageDelta("tool_use", 0, NoneInt), MessageStop,
                       DoneSentinel>>

\* The scenario is reached: tool index 0, two different fragments.
C8_ScenarioReached ==
    /\ handler = "hs" /\ pc = "done"
    /\ IsToolCallScenario(inp, 0)
    /\ Len(inp) = 4
    /\ inp[2] # inp[3]
    /\ Len(ScenarioDeltas(inp, 1)) = 2

\* C9: no upstream tool index gets a second content_block_start, and the block
\* opened for an upstream tool index carries all arguments fragments of that
\* index, also when the fragments of different indices interleave.
C9_ToolCallRouting ==
    handler = "hs" =>
        LET ts == ToolStarts(out)
        IN  /\ \A j, k \in 1..Len(ts) :
                  ts[j].upstream_index = ts[k].upstream_index => j = k
            /\ \A i \in UpstreamToolIdxs(inp) :
                  \E k \in 1..Len(ts) :
                     /\ ts[k].upstream_index = i
                     /\ PartialJson(out, ts[k].index) = UpstreamArguments(inp, i)

\* C10: the partial_json of the input_json_delta events of every tool_use
\* block, concatenated, is the concatenation of all arguments fragments the
\* upstream sent for the tool index the block was opened for.
C10_ArgumentsConcatenation ==
    handler = "hs" =>
        LET ts == ToolStarts(out)
        IN  \A k \in 1..Len(ts) :
               PartialJson(out, ts[k].index) = UpstreamArguments(inp, ts[k].upstream_index)

\* The fragments of every upstream tool index arrive contiguously.
NoInterleaving(chunks) ==
    LET fs == UpstreamToolCalls(chunks)
    IN  \A j, k \in 1..Len(fs) :
           (j < k /\ fs[j].index = fs[k].index) =>
               \A m \in j..k : fs[m].index = fs[j].index

\* Routing and concatenation hold of the streams whose tool indices do not
\* interleave: the two fail through the same defect (line 125 compares the
\* index with the current tool only).
RoutingWithoutInterleaving ==
    NoInterleaving(inp) => (C9_ToolCallRouting /\ C10_ArgumentsConcatenation)

\* C11: in every stream of handle_streaming the index values of the successive
\* content_block_start events are 0, 1, 2, ... in the order the blocks are
\* opened (strictly increasing, starting at 0), whatever text and tool-call
\* deltas arrive.
C11_IndexMonotonicity ==
    handler = "hs" =>
        LET st == OfType(out, "content_block_start")
        IN  \A k \in 1..Len(st) : st[k].index = k - 1

\* Three blocks were opened: the text block and two tool_use blocks, the
\* second for a lower upstream index than the first, with text in between.
C11_ThreeBlocksOpened ==
    LET st == OfType(out, "content_block_start")
    IN  /\ handler = "hs"
        /\ Len(st) = 3
        /\ st[2].upstream_index = 1
        /\ st[3].upstream_index = 0
        /\ \E k \in 1..Len(inp) : inp[k].content # << >>

----------------------------------------------------------------------------
(* Claims about simplified_handle_streaming and                             *)
(* translate_openai_to_anthropic_stream                                     *)

\* The request r is the only one the process has served so far.
RanAlone(r) == \A q \in Reqs \ {r} : req[q] = ReqInit

\* C12: in every stream of simplified_handle_streaming a block index is opened
\* by at most one content_block_start and closed by at most one
\* content_block_stop, and a text block and a tool_use block never carry the
\* same index (upstream tool indices are not reused as block indices).
C12_BlockIndexOpenedOnce ==
    fn = "shs" =>
        \A r \in Reqs :
            RanAlone(r) =>
                LET st == OfType(req[r].out, "content_block_start")
                    sp == OfType(req[r].out, "content_block_stop")
                IN  /\ \A j, k \in 1..Len(st) : st[j].index = st[k].index => j = k
                    /\ \A j, k \in 1..Len(sp) : sp[j].index = sp[k].index => j = k
                    /\ \A j, k \in 1..Len(st) :
                          (st[j].kind = "text" /\ st[k].kind = "tool_use")
                              => st[j].index # st[k].index

\* The events the stream function f emits for the chunks when the request runs
\* alone in a fresh process.
RECURSIVE AloneRun(_, _, _, _)
AloneRun(f, l, a, chunks) ==
    IF chunks = << >> THEN << >>
    ELSE LET s == IF f = "shs" THEN ShsStep(l, a, Head(chunks))
                  ELSE TosStep(l, a, Head(chunks))
         IN  IF s.returns THEN s.ev
             ELSE s.ev \o AloneRun(f, s.l, s.a, Tail(chunks))

AloneOut(f, chunks) == AloneRun(f, ShsInit, NoAttrs, chunks)

\* C13: for two requests served by simplified_handle_streaming (or by
\* translate_openai_to_anthropic_stream), one after the other or interleaved
\* chunk by chunk, also when the other stream ended without finish_reason,
\* raised or was abandoned mid-block, the events of each request are those it
\* gets when it runs alone.
C13_NoCrossRequestState ==
    fn \in {"shs", "tos"} =>
        \A r \in Reqs : req[r].out = AloneOut(fn, req[r].inp)

----------------------------------------------------------------------------
(* Client disconnect *)

\* After the disconnect the handler yields no item, and the upstream read it
\* was cancelled in is over (a generator closed at a yield has no read
\* pending; the event loop closes the upstream iterator behind it).
StoppedAtDisconnect ==
    ends.disconnect # "none" =>
        /\ Len(out) = ends.delivered
        /\ (ends.disconnect = "read" => ends.upstream_closed)

\* C14 for _handle_streaming_response.
C14_OrchStopsAtDisconnect == handler = "orch" => StoppedAtDisconnect

\* C14 for handle_streaming: in particular no `data: [DONE]` after the disconnect.
C14_HsStopsAtDisconnect == handler = "hs" => StoppedAtDisconnect

\* C14: when the client disconnects mid-stream, the stream handler yields no
\* further item and the upstream read is cancelled, in
\* _handle_streaming_response and in handle_streaming (no [DONE] sentinel after
\* the disconnect).
C14_Cancellation == C14_OrchStopsAtDisconnect /\ C14_HsStopsAtDisconnect

----------------------------------------------------------------------------
(* Claims about _translate_anthropic_messages_to_openai *)

Returned(f) == call.fn = f /\ ret.returned

\* The upstream messages built from the Anthropic message at position k.
BuiltFrom(k) == SelectSeq(ret.value, LAMBDA m : m.origin = k)

\* The positions of the messages of the call with the role, given as block lists.
BlockListMessages(role) ==
    {k \in 1..Len(call.messages) : call.messages[k].role = role /\ ~call.messages[k].is_str}

BlocksOfType(k, types) == SelectSeq(call.messages[k].blocks, LAMBDA b : b.type \in types)

\* C15: for a user message given as a block list, one tool message per
\* tool_result block is emitted, in the blocks' order, and the user message
\* built from the text and image blocks (if any) comes after all tool messages
\* of the same Anthropic message.
C15_ToolResultOrdering ==
    Returned("messages") =>
        \A k \in BlockListMessages("user") :
            LET built == BuiltFrom(k)
                tools == SelectSeq(built, LAMBDA m : m.role = "tool")
                results == BlocksOfType(k, {"tool_result"})
            IN  /\ Len(tools) = Len(results)
                /\ \A j \in 1..Len(tools) :
                      /\ tools[j].tool_call_id = results[j].id
                      /\ tools[j].content.text =
                             (IF results[j].is_str THEN results[j].text
                              ELSE json_dumps(results[j].json))
                /\ \A j \in 1..Len(built) :
                      built[j].role = "user" => j = Len(built) /\ j = Len(tools) + 1

\* A user message of a text block followed by two different tool_result
\* blocks was translated: two tool messages, then the user message.
C15_TextBeforeTwoToolResults ==
    /\ Returned("messages")
    /\ \E k \in BlockListMessages("user") :
          LET b == call.messages[k].blocks
          IN  /\ Len(b) = 3
              /\ b[1].type = "text" /\ b[2].type = "tool_result" /\ b[3].type = "tool_result"
              /\ b[2].id # b[3].id
              /\ Len(BuiltFrom(k)) = 3
              /\ BuiltFrom(k)[3].role = "user"

\* C16: a user block list that contains a tool_result block becomes tool
\* message(s) only: its text blocks, before or after the tool_result, produce
\* no user message.
C16_ToolResultOnly ==
    Returned("messages") =>
        \A k \in BlockListMessages("user") :
            BlocksOfType(k, {"tool_result"}) # << >> =>
                \A j \in 1..Len(BuiltFrom(k)) : BuiltFrom(k)[j].role = "tool"

JoinedTexts(blocks) ==
    Concat([j \in 1..(2 * Len(blocks) - 1) |->
               IF j % 2 = 1 THEN blocks[(j + 1) \div 2].text ELSE <<"\n">>])

\* c is str with its leading and trailing whitespace removed.
IsTrimOf(c, str) ==
    \E i, j \in 0..Len(str) :
        /\ i + j <= Len(str)
        /\ c = SubSeq(str, i + 1, Len(str) - j)
        /\ \A n \in 1..i : str[n] \in Whitespace
        /\ \A n \in (Len(str) - j + 1)..Len(str) : str[n] \in Whitespace
        /\ (c # << >> => c[1] \notin Whitespace /\ c[Len(c)] \notin Whitespace)

\* C18: for a system value that is a list of text blocks t1..tn the upstream
\* messages start with exactly one system message whose content is
\* trim(t1.text + "\n" + ... + "\n" + tn.text); when the trimmed string is
\* empty there is no system message and the first upstream message comes from
\* the first Anthropic message.
C18_SystemPromptConcatenation ==
    (Returned("messages") /\ call.system.kind = "list") =>
        LET joined == JoinedTexts(call.system.blocks)
            systems == SelectSeq(ret.value, LAMBDA m : m.role = "system")
        IN  IF \E n \in 1..Len(joined) : joined[n] \notin Whitespace
            THEN /\ Len(systems) = 1
                 /\ ret.value[1].role = "system"
                 /\ ret.value[1].content.kind = "str"
                 /\ ret.value[1].content.text # << >>
                 /\ IsTrimOf(ret.value[1].content.text, joined)
            ELSE /\ systems = << >>
                 /\ (ret.value # << >> => ret.value[1].origin = 1)

\* A system list of blank and padded blocks was translated: the system
\* message is the joined text without the whitespace around it.
C18_PaddedSystemBlocks ==
    /\ Returned("messages")
    /\ call.system.kind = "list"
    /\ Len(call.system.blocks) = 3
    /\ call.system.blocks[1].text = <<" ">>
    /\ call.system.blocks[2].text = <<" ", "a", "\n">>
    /\ call.system.blocks[3].text = <<"a">>
    /\ ret.value[1].content.text = <<"a", "\n", "\n", "a">>

\* C19: every Anthropic assistant message becomes exactly one upstream
\* assistant message; its content is the text blocks' texts joined with "\n"
\* in order and its tool_calls are the tool_use blocks in order; with neither
\* text nor tool_use the content is the empty string, with tool_use blocks
\* only the content is None.
C19_AssistantMessage ==
    Returned("messages") =>
        \A k \in {k \in 1..Len(call.messages) : call.messages[k].role = "assistant"} :
            LET msg == call.messages[k]
                built == BuiltFrom(k)
                texts == IF msg.is_str THEN <<AnthropicContentBlockText(msg.text)>>
                         ELSE BlocksOfType(k, {"text"})
                uses == IF msg.is_str THEN << >> ELSE BlocksOfType(k, {"tool_use"})
            IN  /\ Len(built) = 1
                /\ built[1].role = "assistant"
                /\ built[1].content =
                       (IF texts # << >> THEN StrContent(JoinedTexts(texts))
                        ELSE IF uses = << >> THEN StrContent(<< >>)
                        ELSE NoneContent)
                /\ Len(built[1].tool_calls) = Len(uses)
                /\ \A j \in 1..Len(uses) :
                      built[1].tool_calls[j] =
                          OpenAIToolCall(uses[j].id, uses[j].name, json_dumps(uses[j].json))

\* An assistant message of tool_use blocks only was translated: content None
\* and two tool calls in the blocks' order.
C19_ToolUseOnly ==
    /\ Returned("messages")
    /\ \E k \in BlockListMessages("assistant") :
          LET b == call.messages[k].blocks
          IN  /\ Len(b) = 2
              /\ b[1].type = "tool_use" /\ b[2].type = "tool_use"
              /\ b[1].id = "u2" /\ b[2].id = "u1"
              /\ BuiltFrom(k)[1].content = NoneContent
              /\ Len(BuiltFrom(k)[1].tool_calls) = 2

----------------------------------------------------------------------------
(* Response translation: translate_openai_to_anthropic_response             *)
(* (src/services/response_translator_service.py)                            *)

MaxToolCalls == 2

\* Strings an upstream sends as function.arguments: the serialisations of the
\* JSON values, a truncated object and the empty string.
ArgumentStrings == {json_dumps(v) : v \in JsonValues} \cup {<<"{", "p", ":">>, << >>}

\* json.loads: the value the string serialises; JSONDecodeError otherwise.
json_loads(str) ==
    IF \E v \in JsonValues : json_dumps(v) = str
    THEN [ok |-> TRUE, value |-> CHOOSE v \in JsonValues : json_dumps(v) = str]
    ELSE [ok |-> FALSE, value |-> ""]

\* The JSON values that load as a dict.
JsonObjects == {"obj1", "obj2"}

\* OpenAIChatCompletionChoiceMessage, OpenAIChatCompletionChoice and
\* OpenAIChatCompletionResponse (openai_provider_models.py, lines 117-146).
\* tool_calls << >> is None or the empty list, finish_reason "" is None.
OpenAIChatCompletionChoiceMessage(content, tool_calls) ==
    [role |-> "assistant", content |-> content, tool_calls |-> tool_calls]
OpenAIChatCompletionChoice(message, finish_reason) ==
    [message |-> message, finish_reason |-> finish_reason]
OpenAIChatCompletionResponse(choices, usage) ==
    [id |-> "chatcmpl-1", model |-> "gpt", choices |-> choices, usage |-> usage]

\* AnthropicContentBlockToolUse of a response: input is a parsed value
\* (raw FALSE) or the argument string itself (raw TRUE).
ResponseToolUse(id, name, raw, value, str) ==
    [Block("tool_use") EXCEPT !.id = id, !.name = name, !.is_str = raw,
                              !.json = value, !.text = str]

\* AnthropicMessagesResponse (anthropic_api.py, lines 107-117); stop_reason
\* "" is None.
AnthropicMessagesResponse(id, model, content, usage) ==
    [id |-> id, type |-> "message", role |-> "assistant", model |-> model,
     content |-> content, stop_reason |-> "",
     usage |-> [input_tokens |-> usage.prompt_tokens,
                output_tokens |-> usage.completion_tokens]]

\* Lines 32-52: the tool_use block of one tool call.
ToolUseOfCall(tool_call) ==
    LET loaded == json_loads(tool_call.arguments)
    IN  IF loaded.ok
        THEN ResponseToolUse(tool_call.id, tool_call.name, FALSE, loaded.value, << >>)
        ELSE ResponseToolUse(tool_call.id, tool_call.name, TRUE, "", tool_call.arguments)

\* input: Dict[str, Any] (anthropic_api.py, line 25): the block is
\* constructed only for a dict.
ToolUseValid(block) == ~block.is_str /\ block.json \in JsonObjects

\* Lines 19-61 with the two `if` statements exchanged: the tool_use blocks
\* come before the text block (C21_ResponseContent detects it).
translate_openai_message_content_tools_first(openai_message, response_id, model_name, usage) ==
    LET text_blocks ==
            IF openai_message.content.kind = "str" /\ openai_message.content.text # << >>
            THEN <<AnthropicContentBlockText(openai_message.content.text)>>
            ELSE << >>
        tool_blocks == MapSeq(ToolUseOfCall, openai_message.tool_calls)
    IN  IF \A j \in 1..Len(tool_blocks) : ToolUseValid(tool_blocks[j])
        THEN [raised |-> "",
              value |-> AnthropicMessagesResponse(response_id, model_name,
                                                  tool_blocks \o text_blocks, usage)]
        ELSE [raised |-> "ValidationError"]

\* Lines 19-61. The result is the response, or the ValidationError of the
\* first tool_use block that is not valid.
translate_openai_message_content_to_anthropic(openai_message, response_id, model_name, usage) ==
    LET text_blocks ==
            IF openai_message.content.kind = "str" /\ openai_message.content.text # << >>
            THEN <<AnthropicContentBlockText(openai_message.content.text)>>
            ELSE << >>
        tool_blocks == MapSeq(ToolUseOfCall, openai_message.tool_calls)
    IN  IF \A j \in 1..Len(tool_blocks) : ToolUseValid(tool_blocks[j])
        THEN [raised |-> "",
              value |-> AnthropicMessagesResponse(response_id, model_name,
                                                  text_blocks \o tool_blocks, usage)]
        ELSE [raised |-> "ValidationError"]

\* The table of lines 86-92 without its function_call row
\* (C24_SameStopReasonTable detects it).
response_stop_reason_map_without_function_call(finish_reason) ==
    CASE finish_reason = "stop" -> "end_turn"
      [] finish_reason = "length" -> "max_tokens"
      [] finish_reason = "tool_calls" -> "tool_use"
      [] finish_reason = "content_filter" -> "content_filtered"
      [] OTHER -> finish_reason

\* Lines 86-96: stop_reason_map.get(finish_reason, finish_reason)
response_stop_reason_map(finish_reason) ==
    CASE finish_reason = "stop" -> "end_turn"
      [] finish_reason = "length" -> "max_tokens"
      [] finish_reason = "tool_calls" -> "tool_use"
      [] finish_reason = "content_filter" -> "content_filtered"
      [] finish_reason = "function_call" -> "tool_use"
      [] OTHER -> finish_reason

\* Lines 64-97.
translate_openai_to_anthropic_response(openai_response) ==
    IF openai_response.choices = << >> THEN [raised |-> "ValueError"]
    ELSE LET first_choice == openai_response.choices[1]
             usage == IF openai_response.usage.present THEN openai_response.usage
                      ELSE [present |-> TRUE, prompt_tokens |-> 0, completion_tokens |-> 0]
             anthropic_response ==
                 translate_openai_message_content_to_anthropic(
                     first_choice.message, openai_response.id, openai_response.model, usage)
         IN  IF anthropic_response.raised # "" THEN anthropic_response
             ELSE IF first_choice.finish_reason # ""
             THEN [anthropic_response EXCEPT
                      !.value.stop_reason = response_stop_reason_map(first_choice.finish_reason)]
             ELSE anthropic_response

\* The upstream responses of the check.
UnaryToolCallLists ==
    UNION {{[j \in 1..n |-> OpenAIToolCall(IF j = 1 THEN "c0" ELSE "c1", "f0", a[j])] :
               a \in [1..n -> ArgumentStrings]} : n \in 0..MaxToolCalls}

UpstreamFinishReasons == {"", "stop", "length", "tool_calls", "content_filter", "function_call"}

UpstreamChoices ==
    {OpenAIChatCompletionChoice(OpenAIChatCompletionChoiceMessage(c, tcs), fr) :
        c \in {NoneContent, StrContent(<< >>), StrContent(<<"H", "i">>)},
        tcs \in UnaryToolCallLists,
        fr \in UpstreamFinishReasons}

OtherChoice ==
    OpenAIChatCompletionChoice(
        OpenAIChatCompletionChoiceMessage(StrContent(<<"n", "o">>), << >>), "stop")

UpstreamResponses ==
    {OpenAIChatCompletionResponse(chs, us) :
        chs \in {<< >>} \cup {<<ch>> : ch \in UpstreamChoices}
                \cup {<<ch, OtherChoice>> : ch \in UpstreamChoices},
        us \in {NoUsage, SomeUsage}}

ResponseInit ==
    /\ call \in {[fn |-> "response", openai_response |-> r] : r \in UpstreamResponses}
    /\ ret = NotReturned
    /\ fn = NoFn
    /\ req = << >>
    /\ attrs = NoAttrs
    /\ StreamIdle

\* The call of translate_openai_to_anthropic_response returns or raises.
TranslateResponse ==
    /\ call.fn = "response" /\ ~ret.returned
    /\ ret' = [returned |-> TRUE,
               result |-> translate_openai_to_anthropic_response(call.openai_response)]
    /\ UNCHANGED <<call, sharedVars, streamVars>>

ResponseNext == TranslateResponse

SpecResponse == ResponseInit /\ [][ResponseNext]_vars

\* C20: for every upstream unary response with at least one choice,
\* translate_openai_to_anthropic_response returns a response with role
\* assistant, type message and a content list of length >= 1; when the
\* upstream message has no text and no tool_calls the content is a single
\* empty text block.
C20_RoundTripShape ==
    (Returned("response") /\ call.openai_response.choices # << >>) =>
        LET message == call.openai_response.choices[1].message
        IN  /\ ret.result.raised = ""
            /\ ret.result.value.role = "assistant"
            /\ ret.result.value.type = "message"
            /\ Len(ret.result.value.content) >= 1
            /\ ((message.content.text = << >> /\ message.tool_calls = << >>)
                   => ret.result.value.content = <<AnthropicContentBlockText(<< >>)>>)

\* The part of C20 the code keeps: a returned response has role assistant
\* and type message.
C20_RoleAndType ==
    (Returned("response") /\ ret.result.raised = "") =>
        /\ ret.result.value.role = "assistant"
        /\ ret.result.value.type = "message"

\* The case of C20 where the code diverges: content None, no tool_calls, and
\* the response returned has an empty content list.
C20_EmptyContentList ==
    /\ Returned("response")
    /\ Len(call.openai_response.choices) = 1
    /\ call.openai_response.choices[1].message.content = NoneContent
    /\ call.openai_response.choices[1].message.tool_calls = << >>
    /\ ret.result.raised = ""
    /\ ret.result.value.content = << >>

\* C21: the content of the translated unary response is one text block if
\* the first choice's message.content is non-empty, then one tool_use block
\* per entry of message.tool_calls in upstream order, each with the upstream
\* id and name and the parsed function.arguments as input; usage is
\* {input_tokens: prompt_tokens, output_tokens: completion_tokens}, both 0
\* when the upstream omits usage.
C21_ResponseContent ==
    (Returned("response") /\ ret.result.raised = "") =>
        LET upstream == call.openai_response
            message == upstream.choices[1].message
            content == ret.result.value.content
            has_text == message.content.kind = "str" /\ message.content.text # << >>
            text_count == IF has_text THEN 1 ELSE 0
        IN  /\ Len(content) = text_count + Len(message.tool_calls)
            /\ (has_text => content[1] = AnthropicContentBlockText(message.content.text))
            /\ \A j \in 1..Len(message.tool_calls) :
                  LET block == content[text_count + j]
                  IN  /\ block.type = "tool_use"
                      /\ block.id = message.tool_calls[j].id
                      /\ block.name = message.tool_calls[j].name
                      /\ ~block.is_str
                      /\ block.json \in JsonValues
                      /\ json_dumps(block.json) = message.tool_calls[j].arguments
            /\ ret.result.value.usage =
                   (IF upstream.usage.present
                    THEN [input_tokens |-> upstream.usage.prompt_tokens,
                          output_tokens |-> upstream.usage.completion_tokens]
                    ELSE [input_tokens |-> 0, output_tokens |-> 0])

\* A response with text and two tool calls, sent without usage, was
\* translated: a text block, then two tool_use blocks, and usage 0/0.
C21_TextAndTwoToolCalls ==
    /\ Returned("response")
    /\ ret.result.raised = ""
    /\ call.openai_response.choices # << >>
    /\ call.openai_response.choices[1].message.content = StrContent(<<"H", "i">>)
    /\ Len(call.openai_response.choices[1].message.tool_calls) = 2
    /\ ~call.openai_response.usage.present
    /\ Len(ret.result.value.content) = 3
    /\ ret.result.value.content[2].json = "obj2"
    /\ ret.result.value.content[3].id = "c1"
    /\ ret.result.value.content[3].json = "obj1"

\* The tool_use block whose input is the object {"_raw_arguments": str}.
RawArgumentsToolUse(id, name, str) ==
    [Block("tool_use") EXCEPT !.id = id, !.name = name, !.is_str = FALSE,
                              !.json = "_raw_arguments", !.text = str]

\* The tool calls of the first choice whose arguments are not valid JSON.
MalformedToolCalls ==
    {j \in 1..Len(call.openai_response.choices[1].message.tool_calls) :
        ~json_loads(call.openai_response.choices[1].message.tool_calls[j].arguments).ok}

\* C22: when a tool call's function.arguments is not valid JSON the unary
\* translation still returns a response (it does not raise), and that
\* tool_use block's input is the object {"_raw_arguments": <the raw string>}.
C22_MalformedArgumentsAbsorbed ==
    (Returned("response") /\ call.openai_response.choices # << >>) =>
        LET message == call.openai_response.choices[1].message
            text_count == IF message.content.text # << >> THEN 1 ELSE 0
        IN  MalformedToolCalls # {} =>
                /\ ret.result.raised = ""
                /\ \A j \in MalformedToolCalls :
                      ret.result.value.content[text_count + j] =
                          RawArgumentsToolUse(message.tool_calls[j].id,
                                              message.tool_calls[j].name,
                                              message.tool_calls[j].arguments)

----------------------------------------------------------------------------
(* translate_openai_error_to_anthropic_format on whole payloads             *)
(* (src/services/error_translator_service.py, lines 8-64). An error type is *)
(* a string, written as a sequence of word tokens; no keyword starts or    *)
(* ends inside a token.                                                     *)

\* The keywords of lines 33-53 and their spelling.
ErrorKeywords ==
    {"auth", "permission", "key", "rate_limit", "invalid_request", "validation",
     "bad_request", "not_found", "model_not_found", "overloaded", "capacity",
     "unavailable"}

KeywordText(kw) ==
    CASE kw = "rate_limit" -> <<"rate", "_", "limit">>
      [] kw = "invalid_request" -> <<"invalid", "_", "request">>
      [] kw = "bad_request" -> <<"bad", "_", "request">>
      [] kw = "not_found" -> <<"not", "_", "found">>
      [] kw = "model_not_found" -> <<"model", "_", "not", "_", "found">>
      [] OTHER -> <<kw>>

\* str.lower()
LowerToken(tok) ==
    CASE tok = "Rate" -> "rate"
      [] tok = "Limit" -> "limit"
      [] tok = "AUTH" -> "auth"
      [] tok = "Key" -> "key"
      [] tok = "Overloaded" -> "overloaded"
      [] OTHER -> tok
Lower(str) == [j \in 1..Len(str) |-> LowerToken(str[j])]

\* `sub in str`
Contains(str, sub) ==
    \E j \in 0..(Len(str) - Len(sub)) : SubSeq(str, j + 1, j + Len(sub)) = sub

\* The keywords that raw_type_lower contains.
KeywordsIn(raw_type_lower) ==
    {kw \in ErrorKeywords : Contains(raw_type_lower, KeywordText(kw))}

\* error_details: a dict (with or without the key "error", whose value is a
\* dict or a string), an exception, or anything else. type << >> is a
\* missing, None or empty type; has_message FALSE is a missing message.
ErrorObject(type, has_message, message) ==
    [kind |-> "dict", type |-> type, has_message |-> has_message, message |-> message]
ErrorString(message) ==
    [kind |-> "str", type |-> << >>, has_message |-> TRUE, message |-> message]
\* {"error": err_obj}
ErrorPayload(err_obj) == [kind |-> "dict", error |-> err_obj]
ErrorException(class, message) ==
    [kind |-> "exception", error |-> [kind |-> class, type |-> << >>,
                                      has_message |-> TRUE, message |-> message]]
ErrorOther == [kind |-> "other", error |-> ErrorString(<< >>)]

AnthropicError(error_type, error_message) ==
    [type |-> "error", error |-> [type |-> error_type, message |-> error_message]]

DefaultErrorMessage == <<"An unexpected error occurred.">>

\* Lines 11-64. A dict without the key "error" is its own err_obj (lines 12
\* and 24), so ErrorPayload stands for both. Lines 12-16 build the log
\* message with err_obj.get(...) before line 25 asks whether err_obj is a
\* string: a string err_obj raises AttributeError there.
TranslateErrorDetails(error_details) ==
    LET err_obj == error_details.error
    IN  IF error_details.kind = "dict"
        THEN IF err_obj.kind = "str" THEN [raised |-> "AttributeError"]
             ELSE [raised |-> "",
                   value |-> AnthropicError(
                      IF err_obj.type # << >>
                      THEN translate_openai_error_to_anthropic_format(
                               KeywordsIn(Lower(err_obj.type)))
                      ELSE "api_error",
                      IF err_obj.has_message THEN err_obj.message ELSE DefaultErrorMessage)]
        ELSE IF error_details.kind = "exception"
        THEN [raised |-> "",
              value |-> AnthropicError(
                 IF err_obj.kind = "ValueError" THEN "invalid_request_error"
                 ELSE IF err_obj.kind = "ConnectionError" THEN "api_connection_error"
                 ELSE "api_error",
                 err_obj.message)]
        ELSE [raised |-> "", value |-> AnthropicError("api_error", DefaultErrorMessage)]

\* The error types of the check: every keyword, every two keywords joined by
\* "_", types of upstream APIs, and types in upper or mixed case.
KeywordTypes == {KeywordText(kw) : kw \in ErrorKeywords}
UpstreamErrorTypes ==
    {<<"auth", "entication", "_", "error">>, <<"invalid", "_", "api", "_", "key">>,
     <<"rate", "_", "limit", "_", "exceeded">>, <<"insufficient", "_", "quota">>,
     <<"invalid", "_", "request", "_", "error">>, <<"server", "_", "error">>,
     <<"service", "_", "unavailable">>, <<"internal", "_", "server", "_", "error">>,
     <<"connection", "_", "error">>, <<"upstream", "_", "error">>,
     <<"Rate", "_", "Limit">>, <<"AUTH">>, <<"API", "_", "Key">>, <<"Overloaded">>,
     <<"Key", "_", "Rate", "_", "Limit">>,
     <<"rate", "limit">>, <<"not", "found">>}
RawTypes ==
    {<< >>} \cup KeywordTypes \cup UpstreamErrorTypes
    \cup {a \o <<"_">> \o b : a, b \in KeywordTypes}

ErrorMessages == {<<"m">>}

ErrorDetails ==
    {ErrorPayload(ErrorObject(t, hm, IF hm THEN <<"m">> ELSE << >>)) :
        t \in RawTypes, hm \in BOOLEAN}
    \cup {ErrorPayload(ErrorString(m)) : m \in ErrorMessages}
    \cup {ErrorException(c, m) :
            c \in {"ValueError", "ConnectionError", "Exception"}, m \in ErrorMessages}
    \cup {ErrorOther}

ErrorsInit ==
    /\ call \in {[fn |-> "error", error_details |-> e] : e \in ErrorDetails}
    /\ ret = NotReturned
    /\ fn = NoFn
    /\ req = << >>
    /\ attrs = NoAttrs
    /\ StreamIdle

\* The call of translate_openai_error_to_anthropic_format returns or raises.
TranslateError ==
    /\ call.fn = "error" /\ ~ret.returned
    /\ ret' = [returned |-> TRUE, result |-> TranslateErrorDetails(call.error_details)]
    /\ UNCHANGED <<call, sharedVars, streamVars>>

ErrorsNext == TranslateError

SpecErrors == ErrorsInit /\ [][ErrorsNext]_vars

\* The upstream error.type of the call, in lower case; << >> when missing.
UpstreamTypeLower ==
    IF call.error_details.kind = "dict" /\ call.error_details.error.kind = "dict"
    THEN Lower(call.error_details.error.type)
    ELSE << >>

TypeHasOneOf(texts) == \E t \in texts : Contains(UpstreamTypeLower, t)

\* The Anthropic error type of the rows of C28 for the upstream type.
TableErrorType ==
    IF TypeHasOneOf({<<"auth">>, <<"permission">>, <<"key">>})
        THEN "authentication_error"
    ELSE IF TypeHasOneOf({<<"rate", "_", "limit">>})
        THEN "rate_limit_error"
    ELSE IF TypeHasOneOf({<<"invalid", "_", "request">>, <<"validation">>,
                          <<"bad", "_", "request">>})
        THEN "invalid_request_error"
    ELSE IF TypeHasOneOf({<<"not", "_", "found">>})
        THEN "not_found_error"
    ELSE IF TypeHasOneOf({<<"overloaded">>, <<"capacity">>, <<"unavailable">>})
        THEN "overloaded_error"
    ELSE "api_error"

\* C28: the Anthropic error type is chosen from the upstream error.type,
\* case-insensitively, by the first matching row: auth|permission|key ->
\* authentication_error; rate_limit -> rate_limit_error;
\* invalid_request|validation|bad_request -> invalid_request_error;
\* not_found -> not_found_error; overloaded|capacity|unavailable ->
\* overloaded_error; otherwise, or with the type missing, api_error; the
\* result always has the shape {type: "error", error: {type, message}}.
C28_ErrorTypeTable ==
    Returned("error") =>
        /\ ret.result.raised = ""
        /\ DOMAIN ret.result.value = {"type", "error"}
        /\ ret.result.value.type = "error"
        /\ DOMAIN ret.result.value.error = {"type", "message"}
        /\ (call.error_details.kind = "dict" =>
              ret.result.value.error.type = TableErrorType)

\* The part of C28 the code keeps: when the upstream error is an object, the
\* result has the shape and the type of the table.
C28_TableOnErrorObjects ==
    (Returned("error") /\ call.error_details.kind = "dict"
                       /\ call.error_details.error.kind = "dict") =>
        /\ ret.result.raised = ""
        /\ ret.result.value.type = "error"
        /\ ret.result.value.error.type = TableErrorType

\* An upstream type in mixed case that matches two rows was translated by the
\* first of them.
C28_TwoRowsMatch ==
    /\ Returned("error")
    /\ call.error_details.kind = "dict"
    /\ call.error_details.error.type = <<"Key", "_", "Rate", "_", "Limit">>
    /\ ret.result.value.error.type = "authentication_error"

----------------------------------------------------------------------------
(* POST /v1/messages: messages_endpoint (src/api/v1/endpoints/messages.py), *)
(* orchestrate_message_proxy (message_flow_orchestrator.py, lines 99-215)   *)
(* and call_litellm_openai_chat_completions (litellm_provider_client.py)    *)

\* The caller's model ids: two of the tables and one that no table holds.
CallerModels == {"claude-3-haiku", "claude-3-opus", "claude-x"}

\* AnthropicMessagesRequest: the fields the three functions read.
ProxyRequests == [model : CallerModels, stream : BOOLEAN]

\* settings: the provider, whether its API key is set, and the model maps.
\* "" is None.
ProxySettings == [TARGET_LLM_PROVIDER : {"openai", "gemini", "anthropic", "other"},
                  has_api_key : BOOLEAN]
ANTHROPIC_TO_OPENAI_MAP(model) ==
    CASE model = "claude-3-haiku" -> "gpt-4o-mini"
      [] model = "claude-3-opus" -> "gpt-4o"
      [] OTHER -> ""
ANTHROPIC_TO_GEMINI_MAP(model) ==
    CASE model = "claude-3-haiku" -> "gemini-flash"
      [] model = "claude-3-opus" -> "gemini-pro"
      [] OTHER -> ""

NoProvider == [model |-> "", api_key |-> FALSE]

\* _resolve_provider_details falling back to the provider's default model
\* when the table does not hold the caller's id (C31_ModelRouting detects it).
resolve_provider_details_with_default(initial_model_in_payload, settings) ==
    LET provider == settings.TARGET_LLM_PROVIDER
        translated_model ==
            IF provider = "openai" THEN ANTHROPIC_TO_OPENAI_MAP(initial_model_in_payload)
            ELSE ANTHROPIC_TO_GEMINI_MAP(initial_model_in_payload)
        default_model == IF provider = "openai" THEN "gpt-3.5-turbo" ELSE "gemini-pro"
    IN  IF provider \in {"openai", "gemini"}
        THEN IF initial_model_in_payload = "" \/ ~settings.has_api_key
             THEN NoProvider
             ELSE [model |-> IF translated_model = "" THEN default_model ELSE translated_model,
                   api_key |-> TRUE]
        ELSE IF provider = "anthropic"
        THEN IF ~settings.has_api_key THEN NoProvider
             ELSE [model |-> initial_model_in_payload, api_key |-> TRUE]
        ELSE [model |-> initial_model_in_payload, api_key |-> FALSE]

\* _resolve_provider_details, lines 15-76: (None, None), or the target model
\* and whether a key was found.
resolve_provider_details(initial_model_in_payload, settings) ==
    LET provider == settings.TARGET_LLM_PROVIDER
        translated_model ==
            IF provider = "openai" THEN ANTHROPIC_TO_OPENAI_MAP(initial_model_in_payload)
            ELSE ANTHROPIC_TO_GEMINI_MAP(initial_model_in_payload)
    IN  IF provider \in {"openai", "gemini"}
        THEN IF initial_model_in_payload = "" \/ translated_model = "" \/ ~settings.has_api_key
             THEN NoProvider
             ELSE [model |-> translated_model, api_key |-> TRUE]
        ELSE IF provider = "anthropic"
        THEN IF ~settings.has_api_key THEN NoProvider
             ELSE [model |-> initial_model_in_payload, api_key |-> TRUE]
        ELSE [model |-> initial_model_in_payload, api_key |-> FALSE]

\* The model name an upstream reports in its response.
ReportedModels(final_target_model) == {final_target_model, "upstream-model-v1"}

\* What litellm.acompletion does (line 130): it returns a completion or a
\* stream, or raises litellm's APIError, APIConnectionError or Timeout; it
\* is not called when no provider was resolved.
ProxyResponses(final_target_model) ==
    {[r EXCEPT !.model = m] :
        r \in {u \in UpstreamResponses :
                  /\ u.usage = SomeUsage
                  /\ Len(u.choices) <= 1
                  /\ (u.choices # << >> => u.choices[1].finish_reason = "stop")},
        m \in ReportedModels(final_target_model)}

LitellmOutcomes(stream, provider) ==
    IF provider.model = "" \/ ~provider.api_key
    THEN {[kind |-> "not_called"]}
    ELSE {[kind |-> k] : k \in {"APIError", "APIConnectionError", "Timeout"}}
         \cup (IF stream THEN {[kind |-> "stream"]}
               ELSE {[kind |-> "completion", response |-> r] :
                        r \in ProxyResponses(provider.model)})

ResolveFailedMessage == <<"Failed to resolve provider details">>

\* call_litellm_openai_chat_completions, lines 104-147: the pair it
\* returns, or the Exception it raises with its message.
\* acompletion records the call of litellm.acompletion (line 130) and the
\* payload["model"] it is given (line 120).
call_litellm_openai_chat_completions(request_data, settings, outcome) ==
    LET resolved == resolve_provider_details(request_data.model, settings)
        acompletion == [called |-> TRUE, model |-> resolved.model]
    IN  IF resolved.model = "" \/ ~resolved.api_key
        THEN [raised |-> "Exception", message |-> ResolveFailedMessage \o <<" for model">>,
              acompletion |-> [called |-> FALSE, model |-> ""]]
        ELSE IF outcome.kind = "APIError"
        THEN [raised |-> "Exception", message |-> <<"LiteLLM API Error">>,
              acompletion |-> acompletion]
        ELSE IF outcome.kind \in {"APIConnectionError", "Timeout"}
        THEN [raised |-> "Exception",
              message |-> <<"Unexpected error during LiteLLM operation: ", outcome.kind>>,
              acompletion |-> acompletion]
        ELSE [raised |-> "", value |-> outcome, final_target_model |-> resolved.model,
              acompletion |-> acompletion]

\* What orchestrate_message_proxy returns: a pair of a payload (response,
\* event generator or error dict) and a model name.
OrchestratorResult(payload, model_name) == [payload |-> payload, model_name |-> model_name]
ErrorDict(type, message) ==
    [kind |-> "error",
     value |-> TranslateErrorDetails(ErrorPayload(ErrorObject(type, TRUE, message))).value]

\* orchestrate_message_proxy without the `except Exception` clause of lines
\* 200-215: the Exception of the upstream client leaves the function
\* (C37_OrchestratorTotal detects it).
orchestrate_message_proxy_without_generic_clause(anthropic_request, litellm) ==
    IF litellm.raised # ""
    THEN OrchestratorResult([kind |-> "raised", exception |-> litellm.raised],
                            "unknown_target_model")
    ELSE IF anthropic_request.stream
    THEN IF litellm.value.kind # "stream"
         THEN OrchestratorResult(
                  ErrorDict(<<"internal", "_", "server", "_", "error">>,
                            <<"Streaming requested but upstream did not provide a stream.">>),
                  litellm.final_target_model)
         ELSE OrchestratorResult([kind |-> "stream"], litellm.final_target_model)
    ELSE IF litellm.value.kind # "completion"
    THEN OrchestratorResult(
             ErrorDict(<<"internal", "_", "server", "_", "error">>,
                       <<"Non-streaming request failed to return valid upstream response.">>),
             litellm.final_target_model)
    ELSE LET translated == translate_openai_to_anthropic_response(litellm.value.response)
         IN  IF translated.raised # ""
             THEN \* lines 193-199: ValueError, of which ValidationError is a subclass
                  OrchestratorResult(
                      ErrorDict(<<"invalid", "_", "request", "_", "error">>,
                                <<translated.raised>>),
                      litellm.final_target_model)
             ELSE OrchestratorResult([kind |-> "response", value |-> translated.value],
                                     litellm.final_target_model)

\* Lines 105-215 after the upstream client has returned or raised.
orchestrate_message_proxy(anthropic_request, litellm) ==
    IF litellm.raised # ""
    THEN \* lines 200-215: the client raises plain Exception only
         IF Contains(litellm.message, ResolveFailedMessage)
         THEN OrchestratorResult(
                  ErrorDict(<<"invalid", "_", "request", "_", "error">>, litellm.message),
                  "unknown_target_model")
         ELSE OrchestratorResult(
                  ErrorDict(<<"internal", "_", "server", "_", "error">>,
                            <<"Unexpected orchestration error: ">> \o litellm.message),
                  "unknown_target_model")
    ELSE IF anthropic_request.stream
    THEN IF litellm.value.kind # "stream"
         THEN OrchestratorResult(
                  ErrorDict(<<"internal", "_", "server", "_", "error">>,
                            <<"Streaming requested but upstream did not provide a stream.">>),
                  litellm.final_target_model)
         ELSE OrchestratorResult([kind |-> "stream"], litellm.final_target_model)
    ELSE IF litellm.value.kind # "completion"
    THEN OrchestratorResult(
             ErrorDict(<<"internal", "_", "server", "_", "error">>,
                       <<"Non-streaming request failed to return valid upstream response.">>),
             litellm.final_target_model)
    ELSE LET translated == translate_openai_to_anthropic_response(litellm.value.response)
         IN  IF translated.raised # ""
             THEN \* lines 193-199: ValueError, of which ValidationError is a subclass
                  OrchestratorResult(
                      ErrorDict(<<"invalid", "_", "request", "_", "error">>,
                                <<translated.raised>>),
                      litellm.final_target_model)
             ELSE OrchestratorResult([kind |-> "response", value |-> translated.value],
                                     litellm.final_target_model)

JSONResponse(status_code, content) == [status_code |-> status_code, content |-> content]
StreamingResponse(content) == [status_code |-> 200, content |-> content]

\* Lines 63-71 of messages_endpoint.
final_status_code(err_type) ==
    CASE err_type = "authentication_error" -> 401
      [] err_type = "permission_error" -> 403
      [] err_type = "invalid_request_error" -> 400
      [] err_type = "not_found_error" -> 404
      [] err_type = "rate_limit_error" -> 429
      [] err_type = "api_connection_error" -> 503
      [] err_type = "overloaded_error" -> 503
      [] OTHER -> 500

\* Lines 30-79 of messages_endpoint for a value of orchestrator_response_or_stream
\* of kind "stream" (an AsyncGenerator), "response" (an
\* AnthropicMessagesResponse), "error" (a dict) or "tuple".
EndpointResponse(anthropic_request, orchestrator_response_or_stream) ==
    LET x == orchestrator_response_or_stream
    IN  IF anthropic_request.stream
        THEN IF x.kind = "stream" THEN StreamingResponse(x)
             ELSE IF x.kind = "error" THEN JSONResponse(500, x)
             ELSE JSONResponse(500,
                      ErrorDict(<<"internal", "_", "server", "_", "error">>,
                                <<"Internal error processing stream request.">>))
        ELSE IF x.kind = "response" THEN JSONResponse(200, x)
             ELSE IF x.kind = "error"
             THEN JSONResponse(final_status_code(x.value.error.type), x)
             ELSE JSONResponse(500,
                      ErrorDict(<<"internal", "_", "server", "_", "error">>,
                                <<"Internal error processing non-stream request.">>))

\* Line 28: the value the endpoint receives is the pair the orchestrator
\* returned; it is not unpacked.
messages_endpoint(anthropic_request, orchestrator_result) ==
    EndpointResponse(anthropic_request,
                     [kind |-> "tuple", items |-> orchestrator_result])

ProxyInit ==
    /\ call \in {[fn |-> "proxy", request |-> r, settings |-> st] :
                    r \in ProxyRequests, st \in ProxySettings}
    /\ ret = NotReturned
    /\ fn = NoFn
    /\ req = << >>
    /\ attrs = NoAttrs
    /\ StreamIdle

\* Line 113 of orchestrate_message_proxy: the upstream client returns or raises.
ProxyCallLitellm ==
    /\ call.fn = "proxy" /\ ret = NotReturned
    /\ \E outcome \in LitellmOutcomes(call.request.stream,
                                      resolve_provider_details(call.request.model,
                                                               call.settings)) :
          ret' = [returned |-> FALSE, stage |-> "called", outcome |-> outcome,
                  litellm |-> call_litellm_openai_chat_completions(
                                  call.request, call.settings, outcome)]
    /\ UNCHANGED <<call, sharedVars, streamVars>>

\* orchestrate_message_proxy returns.
ProxyOrchestrate ==
    /\ call.fn = "proxy" /\ ret # NotReturned /\ ~ret.returned /\ ret.stage = "called"
    /\ ret' = [returned |-> FALSE, stage |-> "orchestrated", outcome |-> ret.outcome,
               litellm |-> ret.litellm,
               orch |-> orchestrate_message_proxy(call.request, ret.litellm)]
    /\ UNCHANGED <<call, sharedVars, streamVars>>

\* messages_endpoint answers.
ProxyEndpoint ==
    /\ call.fn = "proxy" /\ ret # NotReturned /\ ~ret.returned /\ ret.stage = "orchestrated"
    /\ ret' = [returned |-> TRUE, stage |-> "answered", outcome |-> ret.outcome,
               litellm |-> ret.litellm, orch |-> ret.orch,
               http |-> messages_endpoint(call.request, ret.orch)]
    /\ UNCHANGED <<call, sharedVars, streamVars>>

ProxyNext ==
    \/ ProxyCallLitellm
    \/ ProxyOrchestrate
    \/ ProxyEndpoint

SpecProxy == ProxyInit /\ [][ProxyNext]_vars

\* C23: the model field of the Anthropic response that
\* orchestrate_message_proxy returns for a non-streaming request equals the
\* model string of the caller's request, whatever model the router resolved
\* and whatever model name the upstream response reports.
C23_ModelEcho ==
    (Returned("proxy") /\ ~call.request.stream /\ ret.orch.payload.kind = "response") =>
        ret.orch.payload.value.model = call.request.model

\* The HTTP status of an Anthropic error type (the table of C29).
MappedStatus(error_type) ==
    CASE error_type = "authentication_error" -> 401
      [] error_type = "rate_limit_error" -> 429
      [] error_type = "invalid_request_error" -> 400
      [] error_type = "not_found_error" -> 404
      [] error_type = "overloaded_error" -> 503
      [] error_type = "api_connection_error" -> 503
      [] OTHER -> 500

\* C29: a non-streaming request whose upstream call succeeds is answered 200
\* with the Anthropic response JSON; a request that fails before streaming
\* starts (stream true or false) is answered with the status mapped from the
\* Anthropic error type and the Anthropic error JSON body.
C29_HttpStatus ==
    Returned("proxy") =>
        /\ (~call.request.stream /\ ret.orch.payload.kind = "response") =>
               /\ ret.http.status_code = 200
               /\ ret.http.content = ret.orch.payload
        /\ ret.orch.payload.kind = "error" =>
               /\ ret.http.status_code = MappedStatus(ret.orch.payload.value.error.type)
               /\ ret.http.content = ret.orch.payload

\* C30: a connection error or timeout raised by the upstream client makes
\* orchestrate_message_proxy return an Anthropic error of type
\* api_connection_error, which the endpoint answers with HTTP 503.
C30_TransportFailure ==
    (Returned("proxy") /\ ret.outcome.kind \in {"APIConnectionError", "Timeout"}) =>
        /\ ret.orch.payload.kind = "error"
        /\ ret.orch.payload.value.error.type = "api_connection_error"
        /\ ret.http.status_code = 503

\* What the code does instead of C29 and C30: every request is answered 500
\* with an api_error body.
ProxyAlwaysAnswers500 ==
    Returned("proxy") =>
        /\ ret.http.status_code = 500
        /\ ret.http.content.kind = "error"
        /\ ret.http.content.value.error.type = "api_error"

----------------------------------------------------------------------------
(* finish_reason on both paths: _build_message_completion_events            *)
(* (anthropic_sse_builder_service.py, lines 55-80) and                      *)
(* translate_openai_to_anthropic_response (lines 86-97)                     *)

\* The finish reasons of the upstream schema and one value outside it, which
\* both functions accept (their parameter is a str, their table has a default).
CheckedFinishReasons == (UpstreamFinishReasons \ {""}) \cup {"eos"}

\* A usage object whose counts are 0 (an object, so still truthy at line 66).
ZeroUsage == [present |-> TRUE, prompt_tokens |-> 0, completion_tokens |-> 0]

FinishCalls ==
    {[fn |-> "finish", finish_reason |-> fr, chunk_usage |-> us,
      openai_response |->
          OpenAIChatCompletionResponse(
              <<OpenAIChatCompletionChoice(ch.message, fr)>>, rus)] :
        fr \in CheckedFinishReasons,
        us \in {NoUsage, SomeUsage, ZeroUsage},
        rus \in {NoUsage, SomeUsage},
        ch \in {c \in UpstreamChoices : c.finish_reason = "stop"}}

NothingDone == [returned |-> FALSE, streamed |-> FALSE, unary |-> FALSE]

FinishInit ==
    /\ call \in FinishCalls
    /\ ret = NothingDone
    /\ fn = NoFn
    /\ req = << >>
    /\ attrs = NoAttrs
    /\ StreamIdle

\* The streaming path builds message_delta and message_stop for the finish reason.
FinishStreamed ==
    /\ call.fn = "finish" /\ ~ret.streamed
    /\ ret' = [ret EXCEPT !.streamed = TRUE, !.returned = ret.unary] @@
              [events |-> BuildMessageCompletionEvents(call.finish_reason, call.chunk_usage)]
    /\ UNCHANGED <<call, sharedVars, streamVars>>

\* The unary path translates a response with the same finish reason.
FinishUnary ==
    /\ call.fn = "finish" /\ ~ret.unary
    /\ ret' = [ret EXCEPT !.unary = TRUE, !.returned = ret.streamed] @@
              [result |-> translate_openai_to_anthropic_response(call.openai_response)]
    /\ UNCHANGED <<call, sharedVars, streamVars>>

FinishNext ==
    \/ FinishStreamed
    \/ FinishUnary

SpecFinish == FinishInit /\ [][FinishNext]_vars

\* The table of C24.
StopReasonOf(finish_reason) ==
    CASE finish_reason = "stop" -> "end_turn"
      [] finish_reason = "length" -> "max_tokens"
      [] finish_reason = "tool_calls" -> "tool_use"
      [] finish_reason = "function_call" -> "tool_use"
      [] finish_reason = "content_filter" -> "content_filtered"
      [] OTHER -> finish_reason

\* C24: both paths map finish_reason to stop_reason by the same table
\* (stop -> end_turn, length -> max_tokens, tool_calls -> tool_use,
\* function_call -> tool_use, content_filter -> content_filtered, any other
\* value unchanged): for every finish_reason the stop_reason of the streamed
\* message_delta equals the stop_reason of the unary response.
C24_SameStopReasonTable ==
    (Returned("finish") /\ ret.result.raised = "") =>
        /\ ret.events[1].type = "message_delta"
        /\ ret.events[1].stop_reason = StopReasonOf(call.finish_reason)
        /\ ret.result.value.stop_reason = StopReasonOf(call.finish_reason)
        /\ ret.events[1].stop_reason = ret.result.value.stop_reason

\* Both paths have translated function_call, and both to tool_use.
C24_FunctionCallOnBothPaths ==
    /\ Returned("finish")
    /\ call.finish_reason = "function_call"
    /\ ret.result.raised = ""
    /\ ret.result.value.stop_reason = "tool_use"
    /\ ret.events[1].stop_reason = "tool_use"

----------------------------------------------------------------------------
(* Tool schemas: _translate_anthropic_tools_to_openai                       *)
(* (request_translator_service.py, lines 181-207) and clean_gemini_schema   *)
(* (anthropic_proxy/app/utils/gemini_schema.py, lines 6-26)                 *)

\* JSON values: k names the Python type (str, bool, dict, list), v is the value;
\* a dict is a function from its keys to JSON values.
JsonStr(s) == [k |-> "str", v |-> s]
JsonBool(b) == [k |-> "bool", v |-> b]
JsonDict(d) == [k |-> "dict", v |-> d]
JsonList(sq) == [k |-> "list", v |-> sq]
NoKeys == << >>

\* isinstance(x, dict), `key in d`, d.get(key) == "text", d.pop(key, None)
IsDict(x) == x.k = "dict"
HasKey(d, key) == key \in DOMAIN d
GetIs(d, key, text) == HasKey(d, key) /\ d[key].k = "str" /\ d[key].v = text
Pop(d, key) == [x \in DOMAIN d \ {key} |-> d[x]]

\* Optional members of the schemas drawn by SchemaInit.
OptionalKey(key, values) == {NoKeys} \cup {key :> x : x \in values}

\* Schemas without nested schemas: strings with and without format and
\* default, and an integer with a format.
StringFormats == {"uuid", "date-time", "enum"}
LeafSchemas ==
    {("type" :> JsonStr("string")) @@ fmt :
        fmt \in OptionalKey("format", {JsonStr(f) : f \in StringFormats})}
    \cup {("type" :> JsonStr("string")) @@ ("format" :> JsonStr("uuid"))
              @@ ("default" :> JsonStr("x")),
          ("type" :> JsonStr("integer")) @@ ("format" :> JsonStr("int32"))}

\* Property names: an ordinary one and one spelled like a schema keyword.
PropertyNames == {"id", "default"}

ArraySchemas ==
    {("type" :> JsonStr("array")) @@ ("items" :> JsonDict(leaf)) : leaf \in LeafSchemas}

AnyOfSchemas ==
    {"anyOf" :> JsonList(<<JsonDict(a), JsonDict(("type" :> JsonStr("string"))
                                                 @@ ("default" :> JsonStr("x")))>>) :
        a \in {l \in LeafSchemas : HasKey(l, "format") /\ l["format"].v \in {"uuid", "date-time"}
                                   /\ ~HasKey(l, "default")}}

NestedObjectSchemas ==
    {("type" :> JsonStr("object"))
        @@ ("properties" :> JsonDict(name :> JsonDict(leaf))) @@ extra :
        name \in PropertyNames, leaf \in LeafSchemas,
        extra \in OptionalKey("additionalProperties", {JsonBool(TRUE)})}

PropertySchemas == LeafSchemas \cup ArraySchemas \cup AnyOfSchemas \cup NestedObjectSchemas

PropertyMaps ==
    {NoKeys}
    \cup {name :> JsonDict(p) : name \in PropertyNames, p \in PropertySchemas}
    \cup {("id" :> JsonDict(p)) @@ ("default" :> JsonDict(q)) :
            p \in PropertySchemas, q \in LeafSchemas}

\* The input_schema objects of the request body.
InputSchemas ==
    {("type" :> JsonStr("object")) @@ ("properties" :> JsonDict(props)) @@ req_ @@ extra :
        props \in PropertyMaps,
        req_ \in OptionalKey("required", {JsonList(<<JsonStr("id")>>)}),
        extra \in OptionalKey("additionalProperties", {JsonBool(FALSE)})}

\* anthropic_api.py, lines 50-53: the declared fields of the model; a field the
\* model does not declare is ignored when the model is built.
AnthropicToolInputSchema(body) ==
    [type |-> "object",
     properties |-> body["properties"].v,
     required_is_none |-> ~HasKey(body, "required"),
     required |-> IF HasKey(body, "required") THEN body["required"] ELSE JsonList(<< >>)]

\* anthropic_api.py, lines 56-59; description "" stands for None.
AnthropicTool(name, input_schema) ==
    [name |-> name, description |-> "", input_schema |-> input_schema]

\* tool.input_schema.model_dump(exclude_none=True), line 189
input_schema_model_dump(input_schema) ==
    ("type" :> JsonStr(input_schema.type))
    @@ ("properties" :> JsonDict(input_schema.properties))
    @@ (IF input_schema.required_is_none THEN NoKeys
        ELSE "required" :> input_schema.required)

\* Lines 190-197: the format of the string-typed schemas directly under
\* params_dict["properties"] is deleted unless it is "date-time".
strip_property_formats(params_dict) ==
    IF HasKey(params_dict, "properties") /\ IsDict(params_dict["properties"])
    THEN LET properties == params_dict["properties"].v
             stripped(prop_schema) ==
                 IF /\ IsDict(prop_schema)
                    /\ GetIs(prop_schema.v, "type", "string")
                    /\ HasKey(prop_schema.v, "format")
                    /\ ~GetIs(prop_schema.v, "format", "date-time")
                 THEN JsonDict(Pop(prop_schema.v, "format"))
                 ELSE prop_schema
         IN  [params_dict EXCEPT !["properties"] =
                 JsonDict([prop_name \in DOMAIN properties |-> stripped(properties[prop_name])])]
    ELSE params_dict

\* openai_provider_models.py, lines 69-77
OpenAIFunctionDefinition(name, description, parameters) ==
    [name |-> name, description |-> description, parameters |-> parameters]

OpenAITool(function) == [type |-> "function", function |-> function]

\* Lines 181-207. The list of tools is None, empty or holds tools.
NoTools == [is_none |-> TRUE, tools |-> << >>]
SomeTools(tools) == [is_none |-> FALSE, tools |-> tools]

translate_anthropic_tools_to_openai(anthropic_tools) ==
    IF anthropic_tools.is_none THEN NoTools
    ELSE SomeTools(
            [i \in DOMAIN anthropic_tools.tools |->
                LET tool == anthropic_tools.tools[i]
                    params_dict == strip_property_formats(
                                       input_schema_model_dump(tool.input_schema))
                IN  OpenAITool(OpenAIFunctionDefinition(tool.name, tool.description,
                                                        params_dict))])

RECURSIVE clean_gemini_schema(_)

\* clean_gemini_schema deleting the format only of a schema that had no default
\* (C26_SanitiserIdempotent detects it: the second application deletes it).
clean_gemini_schema_format_unless_default(schema) ==
    IF schema.k = "dict"
    THEN LET popped == Pop(Pop(schema.v, "additionalProperties"), "default")
             formatted ==
                 IF /\ GetIs(popped, "type", "string") /\ HasKey(popped, "format")
                    /\ ~(popped["format"].k = "str" /\ popped["format"].v \in {"enum", "date-time"})
                    /\ ~HasKey(schema.v, "default")
                 THEN Pop(popped, "format")
                 ELSE popped
         IN  JsonDict([key \in DOMAIN formatted |-> clean_gemini_schema(formatted[key])])
    ELSE IF schema.k = "list"
    THEN JsonList([i \in DOMAIN schema.v |-> clean_gemini_schema(schema.v[i])])
    ELSE schema

\* gemini_schema.py, lines 6-26: every dict loses the keys additionalProperties
\* and default, a dict whose type is "string" loses a format outside
\* {enum, date-time}, and every value of a dict and every item of a list is
\* cleaned the same way.
clean_gemini_schema(schema) ==
    IF schema.k = "dict"
    THEN LET popped == Pop(Pop(schema.v, "additionalProperties"), "default")
             formatted ==
                 IF /\ GetIs(popped, "type", "string") /\ HasKey(popped, "format")
                    /\ ~(popped["format"].k = "str" /\ popped["format"].v \in {"enum", "date-time"})
                 THEN Pop(popped, "format")
                 ELSE popped
         IN  JsonDict([key \in DOMAIN formatted |-> clean_gemini_schema(formatted[key])])
    ELSE IF schema.k = "list"
    THEN JsonList([i \in DOMAIN schema.v |-> clean_gemini_schema(schema.v[i])])
    ELSE schema

\* The calls: the translator on None, on no tool and on one tool; the Gemini
\* cleaner on a schema, on a property schema and on a list of schemas
\* (test_gemini_schema.py, lines 4-65).
ToolsCalls ==
    {[fn |-> "tools", anthropic_tools |-> t, body |-> NoKeys] : t \in {NoTools, SomeTools(<< >>)}}
    \cup {[fn |-> "tools",
           anthropic_tools |-> SomeTools(<<AnthropicTool("f0", AnthropicToolInputSchema(body))>>),
           body |-> body] : body \in InputSchemas}

GeminiSchemas ==
    {JsonDict(NoKeys)}
    \cup {JsonDict(sc) : sc \in InputSchemas \cup NestedObjectSchemas \cup LeafSchemas}
    \cup {JsonList(<<JsonDict(a), JsonDict(b)>>) : a \in LeafSchemas, b \in NestedObjectSchemas}

GeminiCalls == {[fn |-> "gemini", schema |-> sc] : sc \in GeminiSchemas}

SchemaInit ==
    /\ call \in ToolsCalls \cup GeminiCalls
    /\ ret = [returned |-> FALSE, again |-> FALSE]
    /\ fn = NoFn
    /\ req = << >>
    /\ attrs = NoAttrs
    /\ StreamIdle

TranslateTools ==
    /\ call.fn = "tools" /\ ~ret.returned
    /\ ret' = [returned |-> TRUE, again |-> FALSE,
               value |-> translate_anthropic_tools_to_openai(call.anthropic_tools)]
    /\ UNCHANGED <<call, sharedVars, streamVars>>

\* The format-stripping step applied to the parameters it produced.
StripAgain ==
    /\ call.fn = "tools" /\ ret.returned /\ ~ret.again
    /\ ~ret.value.is_none /\ ret.value.tools # << >>
    /\ ret' = [ret EXCEPT !.again = TRUE] @@
              [second |-> strip_property_formats(ret.value.tools[1].function.parameters)]
    /\ UNCHANGED <<call, sharedVars, streamVars>>

CleanGemini ==
    /\ call.fn = "gemini" /\ ~ret.returned
    /\ ret' = [returned |-> TRUE, again |-> FALSE, value |-> clean_gemini_schema(call.schema)]
    /\ UNCHANGED <<call, sharedVars, streamVars>>

\* The cleaner applied to its own output.
CleanAgain ==
    /\ call.fn = "gemini" /\ ret.returned /\ ~ret.again
    /\ ret' = [ret EXCEPT !.again = TRUE] @@ [second |-> clean_gemini_schema(ret.value)]
    /\ UNCHANGED <<call, sharedVars, streamVars>>

SchemaNext ==
    \/ TranslateTools
    \/ StripAgain
    \/ CleanGemini
    \/ CleanAgain

SpecSchema == SchemaInit /\ [][SchemaNext]_vars

----------------------------------------------------------------------------
(* Claims on the tool schemas                                               *)

RECURSIVE SanitisedSchema(_, _, _)

\* A schema read as a JSON Schema: its keywords, the schemas of its
\* `properties` map, of `items` and of `anyOf`. `dropped` are the keywords
\* removed from every schema object, `allowed` the string formats kept.
SanitisedSchema(schema, dropped, allowed) ==
    IF schema.k = "list"
    THEN JsonList([i \in DOMAIN schema.v |-> SanitisedSchema(schema.v[i], dropped, allowed)])
    ELSE IF schema.k # "dict" THEN schema
    ELSE LET kept == [key \in DOMAIN schema.v \ dropped |-> schema.v[key]]
             f == IF /\ GetIs(kept, "type", "string") /\ HasKey(kept, "format")
                     /\ kept["format"].v \notin allowed
                  THEN Pop(kept, "format")
                  ELSE kept
         IN  JsonDict([key \in DOMAIN f |->
                 CASE key = "properties" /\ IsDict(f[key]) ->
                          JsonDict([name \in DOMAIN f[key].v |->
                                       SanitisedSchema(f[key].v[name], dropped, allowed)])
                   [] key \in {"items", "anyOf"} -> SanitisedSchema(f[key], dropped, allowed)
                   [] OTHER -> f[key]])

RECURSIVE HasKeywordNamedProperty(_)

\* Some `properties` map of the schema declares a property called
\* additionalProperties or default.
HasKeywordNamedProperty(schema) ==
    IF schema.k = "list" THEN \E i \in DOMAIN schema.v : HasKeywordNamedProperty(schema.v[i])
    ELSE IF schema.k # "dict" THEN FALSE
    ELSE \/ /\ HasKey(schema.v, "properties") /\ IsDict(schema.v["properties"])
            /\ DOMAIN schema.v["properties"].v \cap {"additionalProperties", "default"} # {}
         \/ \E key \in DOMAIN schema.v : HasKeywordNamedProperty(schema.v[key])

ToolTranslated == Returned("tools") /\ ~ret.value.is_none /\ ret.value.tools # << >>

EmittedParameters == ret.value.tools[1].function.parameters

\* C25: the sanitisation in _translate_anthropic_tools_to_openai is recursive:
\* in the emitted parameters every string-typed schema at any nesting depth
\* (properties of nested objects, array items) has lost its format unless it
\* is "date-time", and every other field (required, nested properties, items,
\* additionalProperties, default) is unchanged.
C25_RecursiveFormatStripping ==
    ToolTranslated =>
        EmittedParameters = SanitisedSchema(JsonDict(call.body), {}, {"date-time"}).v

\* What test_string_parameter_format_handling checks: the string-typed schemas
\* directly under `properties` keep no format but date-time.
C25_TopLevelPropertiesStripped ==
    ToolTranslated =>
        \A name \in DOMAIN EmittedParameters["properties"].v :
            LET prop_schema == EmittedParameters["properties"].v[name].v
            IN  (GetIs(prop_schema, "type", "string") /\ HasKey(prop_schema, "format"))
                    => GetIs(prop_schema, "format", "date-time")

\* A string schema nested in an object property keeps its format "uuid".
C25_NestedFormatKept ==
    /\ ToolTranslated
    /\ HasKey(EmittedParameters["properties"].v, "id")
    /\ LET prop_schema == EmittedParameters["properties"].v["id"].v
       IN  /\ GetIs(prop_schema, "type", "object")
           /\ HasKey(prop_schema["properties"].v, "id")
           /\ GetIs(prop_schema["properties"].v["id"].v, "format", "uuid")
           /\ GetIs(prop_schema["properties"].v["id"].v, "type", "string")

\* C26: the sanitiser is idempotent: applied to its own output, the
\* format-stripping step of _translate_anthropic_tools_to_openai and
\* clean_gemini_schema both return that output unchanged.
C26_SanitiserIdempotent ==
    /\ (Returned("tools") /\ ret.again) => ret.second = EmittedParameters
    /\ (Returned("gemini") /\ ret.again) => ret.second = ret.value

\* clean_gemini_schema was applied twice to a schema whose nested string
\* property lost a format and a default in the first application.
C26_CleanedTwice ==
    /\ Returned("gemini") /\ ret.again
    /\ call.schema.k = "dict"
    /\ HasKey(call.schema.v, "properties")
    /\ HasKey(call.schema.v["properties"].v, "id")
    /\ LET before == call.schema.v["properties"].v["id"].v
           after == ret.value.v["properties"].v["id"].v
       IN  /\ GetIs(before, "format", "uuid") /\ HasKey(before, "default")
           /\ after = ("type" :> JsonStr("string"))
    /\ ret.second = ret.value

\* The stripping step was applied twice to parameters that lost a format.
C26_StrippedTwice ==
    /\ Returned("tools") /\ ret.again
    /\ HasKey(call.body["properties"].v, "id")
    /\ GetIs(call.body["properties"].v["id"].v, "format", "uuid")
    /\ ~HasKey(EmittedParameters["properties"].v["id"].v, "format")
    /\ ret.second = EmittedParameters

\* C27: clean_gemini_schema returns its input with exactly these removals at
\* every nesting level: the additionalProperties and default keywords of each
\* schema object and the format of each string-typed schema whose format is
\* not enum or date-time; everything else is kept, every key of a properties
\* map whatever its name included, and a schema without such fields is
\* returned unchanged.
C27_ExactRemovals ==
    Returned("gemini") =>
        ret.value = SanitisedSchema(call.schema, {"additionalProperties", "default"},
                                    {"enum", "date-time"})

\* The removals are exact on every schema that declares no property called
\* additionalProperties or default.
C27_ExactOnOrdinaryNames ==
    (Returned("gemini") /\ ~HasKeywordNamedProperty(call.schema)) =>
        ret.value = SanitisedSchema(call.schema, {"additionalProperties", "default"},
                                    {"enum", "date-time"})

\* The declared property "default" is missing from the cleaned schema.
C27_PropertyDropped ==
    /\ Returned("gemini")
    /\ call.schema.k = "dict"
    /\ HasKey(call.schema.v, "properties")
    /\ HasKey(call.schema.v["properties"].v, "default")
    /\ ~HasKey(ret.value.v["properties"].v, "default")

----------------------------------------------------------------------------
(* Claims on model routing (litellm_provider_client.py)                     *)

UpstreamClientRan == call.fn = "proxy" /\ ret # NotReturned

\* The entry of the provider's table for the caller's model; "" when absent.
RoutingTableEntry ==
    IF call.settings.TARGET_LLM_PROVIDER = "openai"
    THEN ANTHROPIC_TO_OPENAI_MAP(call.request.model)
    ELSE ANTHROPIC_TO_GEMINI_MAP(call.request.model)

\* C31: for provider openai or gemini the upstream is called only with the
\* model the provider's table maps the caller's model id to; when the id is
\* absent from the table or the provider's credential is missing, the request
\* fails without any upstream call and without a default model; for provider
\* anthropic the caller's model id is used unchanged.
C31_ModelRouting ==
    UpstreamClientRan =>
        LET acompletion == ret.litellm.acompletion
            provider == call.settings.TARGET_LLM_PROVIDER
        IN  /\ provider \in {"openai", "gemini"} =>
                   IF RoutingTableEntry # "" /\ call.settings.has_api_key
                   THEN acompletion = [called |-> TRUE, model |-> RoutingTableEntry]
                   ELSE /\ ~acompletion.called
                        /\ ret.litellm.raised # ""
                        /\ ret.outcome.kind = "not_called"
            /\ provider = "anthropic" =>
                   IF call.settings.has_api_key
                   THEN acompletion = [called |-> TRUE, model |-> call.request.model]
                   ELSE ~acompletion.called /\ ret.litellm.raised # ""

\* A caller id that the OpenAI table does not hold, with the key set: the
\* client raised and made no upstream call.
C31_AbsentFromTable ==
    /\ UpstreamClientRan
    /\ call.settings = [TARGET_LLM_PROVIDER |-> "openai", has_api_key |-> TRUE]
    /\ call.request.model = "claude-x"
    /\ ~ret.litellm.acompletion.called
    /\ ret.litellm.raised = "Exception"

\* A caller id of the Gemini table: the upstream was called with its entry.
C31_MappedModelCalled ==
    /\ UpstreamClientRan
    /\ call.settings = [TARGET_LLM_PROVIDER |-> "gemini", has_api_key |-> TRUE]
    /\ call.request.model = "claude-3-opus"
    /\ ret.litellm.acompletion = [called |-> TRUE, model |-> "gemini-pro"]

----------------------------------------------------------------------------
(* Claims on the streams of handle_streaming                                *)

\* C32: at every point of a stream emitted by handle_streaming at most one
\* content block is open, every content_block_delta and content_block_stop
\* carries the index of the block open at that point, and a block that is
\* open when a new tool call begins is closed with content_block_stop before
\* the new block's content_block_start.
C32_OneOpenBlock ==
    handler = "hs" =>
        \A k \in 1..Len(out) :
            /\ Cardinality(OpenBlocks(out, k)) <= 1
            /\ out[k].type \in {"content_block_delta", "content_block_stop"}
                   => OpenBlocks(out, k - 1) = {out[k].index}
            /\ out[k].type = "content_block_start" => OpenBlocks(out, k - 1) = {}

\* A second tool call began while the block of the first was open: the first
\* block was stopped immediately before the second block's start.
C32_ToolBlockClosedForNext ==
    /\ handler = "hs"
    /\ \E k \in 3..Len(out) :
          /\ out[k].type = "content_block_start" /\ out[k].index = 2
          /\ out[k - 1].type = "content_block_stop" /\ out[k - 1].index = 1
          /\ out[k - 2].type = "content_block_delta" /\ out[k - 2].index = 1

\* C33: for every finite upstream given to handle_streaming (a finish_reason
\* arrives, the stream ends without one, or the upstream iterator raises) the
\* handler emits exactly one message_delta immediately followed by exactly
\* one message_stop; they are the last Anthropic events and only the
\* `data: [DONE]` sentinel follows them.
C33_OneCompletion ==
    (handler = "hs" /\ pc = "done") =>
        /\ Len(out) >= 3
        /\ out[Len(out)] = DoneSentinel
        /\ out[Len(out) - 1].type = "message_stop"
        /\ out[Len(out) - 2].type = "message_delta"
        /\ Len(OfType(out, "message_delta")) = 1
        /\ Len(OfType(out, "message_stop")) = 1
        /\ Len(SelectSeq(out, LAMBDA e : e = DoneSentinel)) = 1

\* The upstream ended without finish_reason while a tool block was open, and
\* the stream was completed.
C33_CompletedWithoutFinishReason ==
    /\ handler = "hs" /\ pc = "done" /\ ~Raised
    /\ Len(inp) >= 2 /\ NoFinishReason(inp)
    /\ hs.current_tool_call_litellm_index # NoneInt
    /\ out[Len(out) - 2].type = "message_delta"
    /\ out[Len(out) - 2].stop_reason = "end_turn"
    /\ out[Len(out) - 3].type = "content_block_stop"

\* The upstream raised after text was sent, and the stream was completed.
C33_CompletedAfterRaise ==
    /\ handler = "hs" /\ pc = "done" /\ Raised
    /\ Len(inp) >= 1
    /\ out[Len(out) - 2].type = "message_delta"
    /\ out[Len(out) - 2].stop_reason = "error"

\* The text of the text_delta events of s, concatenated.
EmittedText(s) ==
    LET ds == SelectSeq(s, LAMBDA e : e.type = "content_block_delta" /\ e.kind = "text_delta")
    IN  Concat([k \in 1..Len(ds) |-> ds[k].text])

\* The delta.content of the chunks, concatenated in arrival order.
ReceivedText(chunks) ==
    Concat([k \in 1..Len(chunks) |-> IF chunks[k].choices THEN chunks[k].content ELSE << >>])

\* C34: no streamed text is lost by handle_streaming: the text of all emitted
\* text_delta events, concatenated, equals the concatenation in arrival order
\* of every non-empty delta.content received up to and including the chunk
\* with finish_reason, also when text arrives after a tool call has started.
C34_NoTextLost ==
    handler = "hs" => EmittedText(out) = ReceivedText(inp)

\* The part of C34 the code keeps: no text is lost while no tool call has
\* been received.
C34_NoTextLostBeforeTools ==
    (handler = "hs" /\ UpstreamToolCalls(inp) = << >>) =>
        EmittedText(out) = ReceivedText(inp)

\* Text received after a tool call had started is in no emitted event.
C34_TextAfterToolLost ==
    /\ handler = "hs" /\ pc = "done" /\ ~Raised
    /\ Len(inp) = 3
    /\ inp[1].tool_calls # << >>
    /\ inp[2].content # << >>
    /\ inp[3].finish_reason # ""
    /\ EmittedText(out) = << >>

----------------------------------------------------------------------------
(* Claims on _build_message_completion_events                               *)

\* C35: in the message_delta built by _build_message_completion_events,
\* usage.output_tokens equals the completion_tokens of the usage carried by
\* the chunk with finish_reason when that chunk carries usage and is 1
\* otherwise; usage never contains input_tokens, and delta.stop_sequence is
\* emitted as an explicit null.
C35_CompletionUsage ==
    (call.fn = "finish" /\ ret.streamed) =>
        LET message_delta == ret.events[1]
        IN  /\ Len(ret.events) = 2
            /\ message_delta.type = "message_delta"
            /\ message_delta.output_tokens =
                   (IF call.chunk_usage.present THEN call.chunk_usage.completion_tokens ELSE 1)
            /\ message_delta.input_tokens = NoneInt
            /\ message_delta.stop_sequence = "null"

\* The same at the call site, lines 133-142 of build_anthropic_sse_stream:
\* the k-th message_delta of an orchestrated stream carries the usage of the
\* k-th chunk with finish_reason.
C35_UsageOfTerminalChunk ==
    handler = "orch" =>
        LET deltas == OfType(out, "message_delta")
            finishes == SelectSeq(inp, LAMBDA c : c.choices /\ c.finish_reason # "")
        IN  /\ Len(deltas) <= Len(finishes)
            /\ \A k \in 1..Len(deltas) :
                  /\ deltas[k].output_tokens =
                         (IF finishes[k].usage.present
                          THEN finishes[k].usage.completion_tokens ELSE 1)
                  /\ deltas[k].input_tokens = NoneInt

\* message_delta was built for a chunk without usage: output_tokens is 1.
C35_PlaceholderUsed ==
    /\ call.fn = "finish" /\ ret.streamed
    /\ ~call.chunk_usage.present
    /\ ret.events[1].output_tokens = 1

\* message_delta was built for a chunk whose usage counts 0 completion tokens.
C35_ZeroCompletionTokens ==
    /\ call.fn = "finish" /\ ret.streamed
    /\ call.chunk_usage = ZeroUsage
    /\ ret.events[1].output_tokens = 0

----------------------------------------------------------------------------
(* Claims on the errors of the orchestrated pipeline                        *)

\* The error types of C36.
AnthropicErrorTypes ==
    {"authentication_error", "rate_limit_error", "invalid_request_error",
     "not_found_error", "overloaded_error", "api_error", "api_connection_error"}

\* C36 for the in-band SSE error events of _handle_streaming_response.
C36_StreamErrorTypes ==
    handler = "orch" =>
        \A k \in 1..Len(out) :
            out[k].type = "error" => out[k].error_type \in AnthropicErrorTypes

\* C36 for the JSON error bodies that orchestrate_message_proxy returns.
C36_BodyErrorTypes ==
    (call.fn = "proxy" /\ ret # NotReturned /\ ret.stage # "called"
        /\ ret.orch.payload.kind = "error") =>
        /\ ret.orch.payload.value.type = "error"
        /\ ret.orch.payload.value.error.type \in AnthropicErrorTypes
        /\ ret.orch.payload.value.error.message # << >>

\* C36: every error type that reaches the client from the orchestrated
\* pipeline, in a JSON error body returned by orchestrate_message_proxy or in
\* an in-band SSE error event of _handle_streaming_response, is one of
\* authentication_error, rate_limit_error, invalid_request_error,
\* not_found_error, overloaded_error, api_error, api_connection_error, and
\* the error carries a message string.
C36_ErrorTypesClosed == C36_StreamErrorTypes /\ C36_BodyErrorTypes

\* The upstream raised an exception that is no HTTPStatusError after a chunk
\* was streamed: the error event has the type internal_server_error.
C36_InternalServerErrorEvent ==
    /\ handler = "orch" /\ pc = "done" /\ Raised
    /\ exc.kind # "http"
    /\ Len(inp) >= 1
    /\ out[Len(out)].type = "error"
    /\ out[Len(out)].error_type = "internal_server_error"

\* C37: orchestrate_message_proxy is total: whatever exception model
\* resolution, the upstream call or response translation raises, it raises
\* nothing to its caller and returns an error dict
\* {type: "error", error: {type, message}}; it returns a stream generator only
\* when stream is true and the upstream call returned an async iterator, and
\* a response object only when stream is false and the upstream returned a
\* complete response.
C37_OrchestratorTotal ==
    (call.fn = "proxy" /\ ret # NotReturned /\ ret.stage # "called") =>
        LET p == ret.orch.payload
            raised_before_return ==
                \/ ret.litellm.raised # ""
                \/ /\ ~call.request.stream
                   /\ ret.outcome.kind = "completion"
                   /\ translate_openai_to_anthropic_response(ret.outcome.response).raised # ""
        IN  /\ p.kind \in {"error", "stream", "response"}
            /\ raised_before_return => p.kind = "error"
            /\ p.kind = "error" =>
                  /\ DOMAIN p.value = {"type", "error"}
                  /\ p.value.type = "error"
                  /\ DOMAIN p.value.error = {"type", "message"}
                  /\ p.value.error.message # << >>
            /\ p.kind = "stream" => call.request.stream /\ ret.outcome.kind = "stream"
            /\ p.kind = "response" =>
                  /\ ~call.request.stream
                  /\ ret.outcome.kind = "completion"
                  /\ ~raised_before_return

\* The upstream call raised after the provider was resolved, and the
\* orchestrator returned an error dict.
C37_UpstreamRaiseReturned ==
    /\ call.fn = "proxy" /\ ret # NotReturned /\ ret.stage = "orchestrated"
    /\ ret.outcome.kind = "Timeout"
    /\ ret.litellm.raised = "Exception"
    /\ ret.orch.payload.kind = "error"
    /\ ret.orch.payload.value.error.type = "api_error"

\* Response translation raised (the upstream response has no choices), and
\* the orchestrator returned an error dict.
C37_TranslationRaiseReturned ==
    /\ call.fn = "proxy" /\ ret # NotReturned /\ ret.stage = "orchestrated"
    /\ ret.outcome.kind = "completion"
    /\ ret.outcome.response.choices = << >>
    /\ ret.orch.payload.kind = "error"
    /\ ret.orch.payload.value.error.type = "invalid_request_error"

----------------------------------------------------------------------------
(* Claims on the messages of a conversation                                 *)

\* C38: no Anthropic message is silently dropped by
\* _translate_anthropic_messages_to_openai: every message of the input
\* conversation, whatever mix of block types its content holds (a user
\* message whose blocks are all tool_use included), produces at least one
\* upstream message.
C38_NoMessageDropped ==
    (call.fn = "messages" /\ ret.returned) =>
        \A k \in 1..Len(call.messages) : BuiltFrom(k) # << >>

\* What the code does: the messages that produce nothing are the user
\* messages with a non-empty block list holding neither text, image nor
\* tool_result blocks.
C38_DroppedMessages ==
    (call.fn = "messages" /\ ret.returned) =>
        \A k \in 1..Len(call.messages) :
            LET msg == call.messages[k]
            IN  BuiltFrom(k) = << >> <=>
                    /\ msg.role = "user" /\ ~msg.is_str
                    /\ msg.blocks # << >>
                    /\ \A j \in 1..Len(msg.blocks) : msg.blocks[j].type = "tool_use"

\* A user message whose two blocks are tool_use blocks stands between no
\* other messages, and the translation is empty.
C38_ToolUseOnlyUserDropped ==
    /\ call.fn = "messages" /\ ret.returned
    /\ Len(call.messages) = 1
    /\ call.messages[1].role = "user" /\ ~call.messages[1].is_str
    /\ Len(call.messages[1].blocks) = 2
    /\ \A j \in 1..2 : call.messages[1].blocks[j].type = "tool_use"
    /\ ret.value = << >>

----------------------------------------------------------------------------
(* _translate_anthropic_messages_to_openai on a conversation and on its two *)
(* parts                                                                    *)

\* The messages of the conversations: every branch of lines 69-177.
ConversationMessages ==
    {StrMessage("user", <<"a">>),
     ListMessage("user", <<ToolResultStr("t1", <<"r">>), AnthropicContentBlockText(<<"a">>)>>),
     ListMessage("user", <<AnthropicContentBlockToolUse("u1", "f1", "obj1")>>),
     ListMessage("user", << >>),
     StrMessage("assistant", <<"a">>),
     ListMessage("assistant", <<AnthropicContentBlockText(<<"a">>),
                                AnthropicContentBlockToolUse("u1", "f1", "obj1")>>)}

Conversations == UNION {[1..n -> ConversationMessages] : n \in 0..MaxMessages}

ConversationSystems ==
    {NoSystem, StrSystem(<<" ", "a", "\n">>),
     ListSystem(<<AnthropicContentBlockText(<<" ">>)>>)}

ConcatInit ==
    /\ call \in {[fn |-> "concat", m1 |-> m1, m2 |-> m2, system |-> sys] :
                    m1 \in Conversations, m2 \in Conversations,
                    sys \in ConversationSystems}
    /\ ret = NotReturned
    /\ fn = NoFn
    /\ req = << >>
    /\ attrs = NoAttrs
    /\ StreamIdle

\* Three calls of _translate_anthropic_messages_to_openai return: on m1
\* followed by m2 with the system prompt, on m1 with the system prompt and on
\* m2 without one.
TranslateConversation ==
    /\ call.fn = "concat" /\ ~ret.returned
    /\ ret' = [returned |-> TRUE,
               whole |-> translate_anthropic_messages_to_openai(call.m1 \o call.m2,
                                                                call.system),
               first |-> translate_anthropic_messages_to_openai(call.m1, call.system),
               second |-> translate_anthropic_messages_to_openai(call.m2, NoSystem)]
    /\ UNCHANGED <<call, sharedVars, streamVars>>

ConcatNext == TranslateConversation

SpecConcat == ConcatInit /\ [][ConcatNext]_vars

\* The upstream messages with the positions of their Anthropic messages
\* moved by n.
ShiftOrigin(messages, n) ==
    [k \in 1..Len(messages) |-> [messages[k] EXCEPT !.origin = @ + n]]

\* C39: message translation is order-preserving and context-free: the
\* translation of m1 followed by m2 with the system prompt s is the
\* translation of m1 with s followed by the translation of m2 with no system
\* prompt, and the upstream messages are in the order of the Anthropic
\* messages they come from.
C39_TranslationConcatenates ==
    (call.fn = "concat" /\ ret.returned) =>
        /\ ret.whole = ret.first \o ShiftOrigin(ret.second, Len(call.m1))
        /\ \A i, j \in 1..Len(ret.whole) :
              i < j => ret.whole[i].origin <= ret.whole[j].origin

\* Both parts hold messages, the system prompt yields a message, and a user
\* message with a tool result ends m1 and another begins m2.
C39_ToolResultsOnBothSides ==
    /\ call.fn = "concat" /\ ret.returned
    /\ Len(call.m1) = 2 /\ Len(call.m2) = 2
    /\ ret.whole[1].role = "system"
    /\ \A m \in {call.m1[2], call.m2[1]} :
          /\ m.role = "user" /\ ~m.is_str
          /\ \E j \in 1..Len(m.blocks) : m.blocks[j].type = "tool_result"
    /\ Len(ret.second) >= 3

====
